---- MODULE Spec2Model ----
(***************************************************************************)
(* Model of the scoring-and-aggregation engine of trade-engine:            *)
(* src/signal_processors/bittensor_processor.py (class BittensorProcessor).*)
(*                                                                         *)
(* Numbers.  Python floats are modelled as exact rationals <<n, d>> in     *)
(* lowest terms with d > 0, so equal values are equal tuples.  Rounding of *)
(* IEEE doubles is modelled only where a claim is about exactness (the     *)
(* gradient weights, the Sharpe ratio and the net position of orders whose *)
(* leverages are tenths, see the Dbl* definitions).                        *)
(***************************************************************************)
EXTENDS Integers, Sequences, FiniteSets, TLC

VARIABLES
    pc,             \* position of the running call
    orders,         \* argument of _compute_net_position_and_average_price
    sorted_orders,  \* its local sorted_orders
    oi,             \* index of the next order of its for-loop
    net_position,   \* its local net_position
    cost_basis,     \* its local cost_basis
    max_rank,       \* argument of _calculate_gradient_allocation
    rank,           \* its loop variable
    total_weight,   \* its local total_weight
    allocations,    \* its local allocations: rank -> weight (a double)
    values,         \* argument of normalize_to_percentile
    reverse,        \* argument of normalize_to_percentile
    sorted_with_idx, \* its local sorted_with_idx: <<index, value>> pairs
    pi,             \* position of its loop in sorted_with_idx (1-based)
    ranks,          \* its local ranks
    positions_data, \* the snapshot: argument of rank_miners / _process_signals
    assets_to_trade, \* argument of rank_miners
    now,            \* datetime.now() of the call, in days
    data,           \* calculate_miner_scores: its argument (the filtered snapshot)
    mi,             \* calculate_miner_scores: index of the next miner of its loop
    metrics_data,   \* calculate_miner_scores: its local metrics_data
    rank_out,       \* result of rank_miners: [raised, rankings, ranked_miners]
    entry,          \* calculate_miner_scores: one entry of metrics_data (miner_data)
    percentiles,    \* its sharpe, position count and consistency percentiles
    higher_return,  \* a total_return not below that of entry
    scores,         \* the normalized entries for the two total returns
    returns,        \* argument position_returns of calculate_sharpe_ratio (doubles)
    sharpe_ratio,   \* what calculate_sharpe_ratio returns
    dd_orders,      \* argument orders of calculate_max_drawdown_from_orders
    di,             \* index of the next order of its for-loop
    cumulative_leverage, \* its local cumulative_leverage
    weighted_sum_price,  \* its local weighted_sum_price
    max_dd,         \* its local max_drawdown
    dd_out,         \* what it returns or raises: [raised, value]
    dbl_orders,     \* argument orders of _compute_net_position_and_average_price,
                    \* the leverages held as doubles
    dbl_net_position, \* the net_position it returns, as a double
    raw_signals,    \* argument data of _process_signals: None or Some(snapshot)
    top_miners,     \* argument of _process_signals: None or Some(n)
    mapped_only,    \* argument of _process_signals
    sorted_miners,  \* _process_signals: its local sorted_miners
    sig_allocations, \* _process_signals: its local allocations
    asset_depths,   \* _process_signals: its local asset_depths, in insertion order
    miner_tracker,  \* _process_signals: its local miner_tracker
    si,             \* _process_signals: index (rank) of the next miner
    sig_out,        \* result of _process_signals: [raised, value]
    key_count_file, \* the miner count cache file: None, or Some(its text)
    caller,         \* "get_ranked_miners" while rank_miners runs inside it
    runs,           \* number of get_ranked_miners calls made
    grm_out,        \* result of the last get_ranked_miners call
    grm_log         \* the finished get_ranked_miners calls: [snapshot, assets, out]

netVars == <<orders, sorted_orders, oi, net_position, cost_basis>>
gradVars == <<max_rank, rank, total_weight, allocations>>
pctVars == <<values, reverse, sorted_with_idx, pi, ranks>>
rankVars == <<positions_data, assets_to_trade, now, data, mi, metrics_data, rank_out>>
ddVars == <<dd_orders, di, cumulative_leverage, weighted_sum_price, max_dd, dd_out>>
dblVars == <<dbl_orders, dbl_net_position>>
scoreVars == <<entry, percentiles, higher_return, scores, returns, sharpe_ratio, ddVars,
               dblVars>>
sigVars == <<raw_signals, top_miners, mapped_only, sorted_miners, sig_allocations, asset_depths,
             miner_tracker, si, sig_out>>
guardVars == <<key_count_file, caller, runs, grm_out, grm_log>>
vars == <<pc, netVars, gradVars, pctVars, rankVars, scoreVars, sigVars, guardVars>>

(***************************************************************************)
(* Exact rational arithmetic                                               *)
(***************************************************************************)
Abs(x) == IF x < 0 THEN -x ELSE x

RECURSIVE Gcd(_, _)
Gcd(a, b) == IF b = 0 THEN a ELSE Gcd(b, a % b)

Lcm(a, b) == (a \div Gcd(a, b)) * b

\* n/d in lowest terms with a positive denominator (d # 0)
Rat(n, d) ==
    LET g == Gcd(Abs(n), Abs(d))
        s == IF d < 0 THEN -1 ELSE 1
    IN  <<(s * n) \div g, (s * d) \div g>>

Zero == <<0, 1>>
One == <<1, 1>>
RInt(k) == <<k, 1>>
RNeg(a) == <<-a[1], a[2]>>
RAbs(a) == <<Abs(a[1]), a[2]>>
RAdd(a, b) ==
    IF a = Zero THEN b
    ELSE IF b = Zero THEN a
    ELSE LET l == Lcm(a[2], b[2])
         IN  Rat(a[1] * (l \div a[2]) + b[1] * (l \div b[2]), l)
RSub(a, b) == RAdd(a, RNeg(b))
RMul(a, b) ==
    IF a = Zero \/ b = Zero THEN Zero
    ELSE LET g1 == Gcd(Abs(a[1]), b[2])
             g2 == Gcd(Abs(b[1]), a[2])
         IN  Rat((a[1] \div g1) * (b[1] \div g2), (a[2] \div g2) * (b[2] \div g1))
RDiv(a, b) == RMul(a, Rat(b[2], b[1]))
RLt(a, b) ==
    LET l == Lcm(a[2], b[2])
    IN  a[1] * (l \div a[2]) < b[1] * (l \div b[2])
RLe(a, b) == a = b \/ RLt(a, b)
RGt(a, b) == RLt(b, a)
RGe(a, b) == RLe(b, a)
RMin(a, b) == IF RLt(b, a) THEN b ELSE a
RMax(a, b) == IF RLt(a, b) THEN b ELSE a

\* a^k for k >= 0: a is in lowest terms, and so is the power
RPow(a, k) == IF k = 0 THEN One ELSE <<a[1]^k, a[2]^k>>

\* the sum of a sequence of rationals, by halves: the sums are exact, so the
\* order of the additions does not change the result
RECURSIVE RSum(_)
RSum(s) ==
    IF s = <<>> THEN Zero
    ELSE IF Len(s) = 1 THEN s[1]
    ELSE RAdd(RSum(SubSeq(s, 1, Len(s) \div 2)), RSum(SubSeq(s, (Len(s) \div 2) + 1, Len(s))))

(***************************************************************************)
(* Strings: an order_type is a sequence of characters, so that             *)
(* str.upper() and str.strip() are computed.                               *)
(***************************************************************************)
UpperChar(c) ==
    CASE c = "a" -> "A" [] c = "f" -> "F" [] c = "l" -> "L" [] c = "t" -> "T"
      [] c = "o" -> "O" [] c = "n" -> "N" [] c = "g" -> "G" [] c = "s" -> "S"
      [] c = "h" -> "H" [] c = "r" -> "R"
      [] OTHER -> c

Upper(s) == [k \in 1..Len(s) |-> UpperChar(s[k])]

IsSpace(c) == c \in {" ", "\t", "\n"}

RECURSIVE LStrip(_)
LStrip(s) == IF s # <<>> /\ IsSpace(Head(s)) THEN LStrip(Tail(s)) ELSE s

RECURSIVE RStrip(_)
RStrip(s) ==
    IF s # <<>> /\ IsSpace(s[Len(s)]) THEN RStrip(SubSeq(s, 1, Len(s) - 1)) ELSE s

Strip(s) == LStrip(RStrip(s))

FLAT == <<"F", "L", "A", "T">>
LONG == <<"L", "O", "N", "G">>
SHORT == <<"S", "H", "O", "R", "T">>

(***************************************************************************)
(* _compute_net_position_and_average_price                                 *)
(***************************************************************************)
\* sorted(orders, key=lambda x: x["processed_ms"]): stable, ascending
RECURSIVE InsertByMs(_, _)
InsertByMs(s, o) ==
    IF s = <<>> THEN <<o>>
    ELSE IF s[Len(s)].processed_ms <= o.processed_ms THEN Append(s, o)
    ELSE Append(InsertByMs(SubSeq(s, 1, Len(s) - 1), o), s[Len(s)])

RECURSIVE SortByMs(_)
SortByMs(s) ==
    IF s = <<>> THEN <<>>
    ELSE InsertByMs(SortByMs(SubSeq(s, 1, Len(s) - 1)), s[Len(s)])

\* order["order_type"].upper().strip() == "FLAT"
IsFlatOrder(o) == Strip(Upper(o.order_type)) = FLAT

\* mutant: only the latest order is tested
AnyFlatLastOnly(s) == s # <<>> /\ IsFlatOrder(s[Len(s)])

\* any(... for order in sorted_orders)
AnyFlat(s) == \E k \in 1..Len(s) : IsFlatOrder(s[k])

\* abs(net_position) < 1e-15: every non-zero magnitude the model's inputs
\* can produce is far above 1e-15, so the test is the test for zero
BelowTolerance(x) == x = Zero

\* mutant: the weighted sum is divided by the old position
SameDirectionOldSize(net, basis, qty, price) ==
    [net |-> RAdd(net, qty),
     basis |-> RDiv(RAdd(RMul(net, basis), RMul(qty, price)), net)]

\* same direction => weighted average
SameDirection(net, basis, qty, price) ==
    LET new_position == RAdd(net, qty)
    IN  [net |-> new_position,
         basis |-> RDiv(RAdd(RMul(net, basis), RMul(qty, price)), new_position)]

\* mutant: a flip keeps the old cost basis
FlipKeepsBasis(net, basis, qty, price) ==
    [net |-> RAdd(qty, net), basis |-> basis]

\* mutant: a flip drops the old position, leftover = qty
FlipToQty(net, basis, qty, price) ==
    [net |-> qty, basis |-> price]

\* flip from net_position to leftover
Flip(net, basis, qty, price) ==
    [net |-> RAdd(qty, net), basis |-> price]

\* mutant: a full close keeps the cost basis
CloseKeepsBasis(net, basis, qty, price) ==
    [net |-> RAdd(net, qty), basis |-> basis]

\* mutant: the argument is sorted in place, orders.sort(key=...)
SortedInPlace(os) == SortByMs(os)

\* line 218: the list that the caller passed, after sorted(orders, key=...)
\* has built the new list sorted_orders
ArgumentAfterSorted(os) == os

\* partial or full close of the existing position
CloseStep(net, basis, qty, price) ==
    LET new_position == RAdd(net, qty)
    IN  IF BelowTolerance(RAbs(new_position))
        THEN [net |-> Zero, basis |-> Zero]
        ELSE [net |-> new_position, basis |-> basis]

\* one iteration of the for-loop over sorted_orders
NetStep(st, o) ==
    LET qty == o.leverage
        price == o.price
    IN  IF RAbs(qty) = Zero THEN st
        ELSE IF RGt(RMul(st.net, qty), Zero)
             THEN SameDirection(st.net, st.basis, qty, price)
        ELSE IF RGt(RAbs(qty), RAbs(st.net))
             THEN Flip(st.net, st.basis, qty, price)
        ELSE CloseStep(st.net, st.basis, qty, price)

RECURSIVE NetFold(_, _)
NetFold(st, s) == IF s = <<>> THEN st ELSE NetFold(NetStep(st, Head(s)), Tail(s))

\* the whole function, as _process_signals calls it
ComputeNet(os) ==
    LET so == SortByMs(os)
    IN  IF AnyFlat(so) THEN [net |-> Zero, basis |-> Zero]
        ELSE NetFold([net |-> Zero, basis |-> Zero], so)

(***************************************************************************)
(* IEEE doubles that are quotients and sums of small integers.             *)
(* A double x is held exactly as [a, t, d, s], x = a/t + d/(t * 2^s): the  *)
(* quotient a/t it approximates and its rounding error in units of         *)
(* 1/(t * 2^s).  Python's int / int and float + float round the exact      *)
(* result to the nearest multiple of 2^(e-52), ties to even, where         *)
(* 2^e <= result < 2^(e+1).  The values here lie in (0, 2).                *)
(***************************************************************************)
RECURSIVE Pow2(_)
Pow2(n) == IF n = 0 THEN 1 ELSE 2 * Pow2(n - 1)

\* 2^n mod m, ten doublings at a time
RECURSIVE Pow2Mod(_, _)
Pow2Mod(n, m) ==
    IF n < 10 THEN Pow2(n) % m ELSE (1024 * Pow2Mod(n - 10, m)) % m

\* the j >= 0 with 2^-j <= a/t + (tiny d) < 2^(1-j)
RECURSIVE DblBinade(_, _, _, _)
DblBinade(a, t, d, j) ==
    IF a * Pow2(j) < t THEN DblBinade(a, t, d, j + 1)
    ELSE IF a * Pow2(j) = t /\ d < 0 THEN j + 1
    ELSE j

\* a/t + d/(t * 2^s) rounded to the nearest multiple of 2^-sp, ties to even
DblRound(a, t, d, s, sp) ==
    LET den == t * Pow2(s - sp)
        r2 == (a * Pow2Mod(s, 2 * den) + d) % (2 * den)
        rho == r2 % den
        odd == r2 >= den
    IN  IF 2 * rho < den \/ (2 * rho = den /\ ~odd)
        THEN [a |-> a, t |-> t, d |-> d - rho, s |-> s]
        ELSE [a |-> a, t |-> t, d |-> d + den - rho, s |-> s]

\* k / t for Python ints 0 < k, 0 < t
DblDiv(k, t) ==
    LET j == DblBinade(k, t, 0, 0)
    IN  DblRound(k, t, 0, 52 + j, 52 + j)

\* x + y for doubles over the same t
DblAdd(x, y) ==
    LET s == IF x.s > y.s THEN x.s ELSE y.s
        a == x.a + y.a
        d == x.d * Pow2(s - x.s) + y.d * Pow2(s - y.s)
    IN  DblRound(a, x.t, d, s, 52 + DblBinade(a, x.t, d, 0))

\* sum(xs) of a non-empty list of doubles, left to right (0 + x is x)
RECURSIVE DblSum(_)
DblSum(xs) ==
    IF Len(xs) = 1 THEN xs[1]
    ELSE DblAdd(DblSum(SubSeq(xs, 1, Len(xs) - 1)), xs[Len(xs)])

\* x < y: the quotients differ by at least 1/t, the errors by far less
DblLt(x, y) ==
    LET s == IF x.s > y.s THEN x.s ELSE y.s
    IN  IF x.a # y.a THEN x.a < y.a
        ELSE x.d * Pow2(s - x.s) < y.d * Pow2(s - y.s)

\* the real quotient a double approximates
DblQuotient(x) == Rat(x.a, x.t)

\* x / n for a double x and a Python int n > 0
DblDivInt(x, n) ==
    LET sp == 52 + DblBinade(x.a, x.t * n, x.d, 0)
        s == IF x.s > sp THEN x.s ELSE sp
    IN  DblRound(x.a, x.t * n, x.d * Pow2(s - x.s), s, sp)

\* x == y: the same quotient with the same rounding error
DblEq(x, y) ==
    LET s == IF x.s > y.s THEN x.s ELSE y.s
    IN  /\ x.a * y.t = y.a * x.t
        /\ x.d * y.t * Pow2(s - x.s) = y.d * x.t * Pow2(s - y.s)

(***************************************************************************)
(* _calculate_gradient_allocation                                          *)
(***************************************************************************)
RECURSIVE SumInts(_)
SumInts(s) == IF s = <<>> THEN 0 ELSE Head(s) + SumInts(Tail(s))

\* mutant: the rank is not subtracted
GradientTotalNoRank(n) == SumInts([r \in 1..n |-> n + 1])

\* sum(max_rank + 1 - rank for rank in range(1, max_rank + 1))
GradientTotal(n) == SumInts([r \in 1..n |-> n + 1 - r])

\* mutant: the rank itself is the numerator
InvertedRankPlain(n, r) == r

\* inverted_rank = max_rank + 1 - rank
InvertedRank(n, r) == n + 1 - r

\* the whole function: rank -> weight, ranks 1..n
GradientAllocation(n) ==
    [r \in 1..n |-> DblDiv(InvertedRank(n, r), GradientTotal(n))]

(***************************************************************************)
(* normalize_to_percentile                                                 *)
(***************************************************************************)
\* sorted(enumerate(values), key=lambda x: x[1], reverse=...): stable in
\* both directions (equal keys keep their input order); p = <<idx, value>>
RECURSIVE InsertByValue(_, _, _)
InsertByValue(s, p, desc) ==
    IF s = <<>> THEN <<p>>
    ELSE LET last == s[Len(s)]
             stays == IF desc THEN RGe(last[2], p[2]) ELSE RLe(last[2], p[2])
         IN  IF stays THEN Append(s, p)
             ELSE Append(InsertByValue(SubSeq(s, 1, Len(s) - 1), p, desc), last)

RECURSIVE SortByValue(_, _)
SortByValue(ps, desc) ==
    IF ps = <<>> THEN <<>>
    ELSE InsertByValue(SortByValue(SubSeq(ps, 1, Len(ps) - 1), desc), ps[Len(ps)], desc)

\* enumerate(values), with Python's 0-based indices kept 1-based
Enumerate(vs) == [k \in 1..Len(vs) |-> <<k, vs[k]>>]

\* mutant: the fraction is not subtracted from 1
PercentileScoreRaw(rk, n) == IF n > 1 THEN Rat(rk, n - 1) ELSE Zero

\* 1.0 - (rank / (n - 1) if n > 1 else 0), rank 0-based
PercentileScore(rk, n) ==
    RSub(One, IF n > 1 THEN Rat(rk, n - 1) ELSE Zero)

\* the loop over sorted_with_idx, from 1-based position k on
RECURSIVE PercentileAssign(_, _, _)
PercentileAssign(rs, swi, k) ==
    IF k > Len(swi) THEN rs
    ELSE PercentileAssign([rs EXCEPT ![swi[k][1]] = PercentileScore(k - 1, Len(swi))],
                          swi, k + 1)

\* the whole function
NormalizeToPercentile(vs, rev) ==
    IF vs = <<>> THEN <<>>
    ELSE PercentileAssign([k \in 1..Len(vs) |-> Zero],
                          SortByValue(Enumerate(vs), ~rev), 1)

(***************************************************************************)
(* The snapshot.  A dict is a sequence of entries in insertion order with  *)
(* distinct keys.  positions_data: <<[hotkey, all_time_returns,            *)
(* thirty_day_returns, positions]>>; a position: [trade_pair, orders,      *)
(* is_closed_position, net_leverage, return_at_close, current_return,      *)
(* open_ms, close_ms].                                                     *)
(***************************************************************************)
\* Python's None, and an Optional value that is present
None == <<>>
Some(v) == <<v>>

\* the raised field of a result that ended without an exception
NoError == "NoError"

MIN_TRADES == 10
MAX_DRAWDOWN_THRESHOLD == Rat(-1, 2)
MIN_PROFITABLE_RATE == Rat(6, 10)
MIN_TOTAL_RETURN == Zero
DRAWDOWN_EXPONENT == 6
SHARPE_EXPONENT == 2
PROFITABLE_RATE_EXPONENT == 5
POSITION_COUNT_DIVISOR == 5
MIN_TRADES_PER_ASSET == 0
MAX_TRADE_AGE_DAYS == 14
LEVERAGE_LIMIT_CRYPTO == Rat(1, 2)

\* the keys of CORE_ASSET_MAPPING, in the dict's order
CoreAssets == <<"BTCUSD", "ETHUSD", "ADAUSD">>

CORE_ASSET_MAPPING(sym) ==
    CASE sym = "BTCUSD" -> "BTCUSDT"
      [] sym = "ETHUSD" -> "ETHUSDT"
      [] sym = "ADAUSD" -> "ADAUSDT"

InCoreAssets(sym) == \E k \in 1..Len(CoreAssets) : CoreAssets[k] = sym

(***************************************************************************)
(* calculate_max_drawdown_from_orders / _from_positions                    *)
(* Results of functions that can raise are [raised, value].                *)
(***************************************************************************)
Ok(v) == [raised |-> NoError, value |-> v]
Raise(e) == [raised |-> e, value |-> None]

\* lines 525-530: account_drawdown for the order's price
AccountDrawdown(price, average_price, cum) ==
    RMul(IF RGt(cum, Zero)
         THEN RDiv(RSub(price, average_price), average_price)
         ELSE RDiv(RSub(average_price, price), average_price),
         RAbs(cum))

\* lines 517-532, with cum and wsum the two sums after the order is added:
\* a zero cum is kept and skips the rest, a zero wsum makes average_price
\* zero and the division by it raise
DrawdownUpdate(st, price, cum, wsum) ==
    IF cum = Zero THEN [st EXCEPT !.cum = cum]
    ELSE IF wsum = Zero
         THEN [st EXCEPT !.cum = cum, !.wsum = wsum, !.raised = "ZeroDivisionError"]
    ELSE [cum |-> cum, wsum |-> wsum,
          mdd |-> RMin(st.mdd, RNeg(RAbs(AccountDrawdown(price, RDiv(wsum, cum), cum)))),
          raised |-> NoError]

\* mutant: only an order of zero leverage is skipped
DrawdownStepCountsZeroPrice(st, o) ==
    IF st.raised # NoError THEN st
    ELSE IF o.leverage = Zero THEN st
    ELSE DrawdownUpdate(st, o.price, RAdd(st.cum, o.leverage),
                        RAdd(st.wsum, RMul(o.leverage, o.price)))

\* one iteration of the loop; st = [cum, wsum, mdd, raised]
DrawdownStep(st, o) ==
    IF st.raised # NoError THEN st
    ELSE IF o.leverage = Zero \/ o.price = Zero THEN st
    ELSE DrawdownUpdate(st, o.price, RAdd(st.cum, o.leverage),
                        RAdd(st.wsum, RMul(o.leverage, o.price)))

RECURSIVE DrawdownFold(_, _)
DrawdownFold(st, os) ==
    IF os = <<>> \/ st.raised # NoError THEN st
    ELSE DrawdownFold(DrawdownStep(st, Head(os)), Tail(os))

\* line 534: return max_drawdown, unless the loop raised
DrawdownResult(st) ==
    IF st.raised # NoError THEN Raise(st.raised) ELSE Ok(st.mdd)

CalculateMaxDrawdownFromOrders(os) ==
    DrawdownResult(
        DrawdownFold([cum |-> Zero, wsum |-> Zero, mdd |-> Zero, raised |-> NoError], os))

\* line 541: each position's drawdown, paired with the position's index
PositionDrawdowns(ps) ==
    {<<k, CalculateMaxDrawdownFromOrders(ps[k].orders)>> : k \in 1..Len(ps)}

\* the call of line 541 that raises first
FirstRaised(ds) ==
    CHOOSE d \in ds :
        d[2].raised # NoError /\ \A e \in ds : e[2].raised # NoError => d[1] <= e[1]

\* lines 538 and 542: min over 0 and every position's drawdown
DrawdownMin(ds) ==
    CHOOSE m \in {Zero} \cup {d[2].value : d \in ds} :
        RLe(m, Zero) /\ \A d \in ds : RLe(m, d[2].value)

\* lines 538-543 over the drawdowns ds of the positions
DrawdownOverPositions(ds) ==
    IF \E d \in ds : d[2].raised # NoError THEN FirstRaised(ds)[2] ELSE Ok(DrawdownMin(ds))

CalculateMaxDrawdownFromPositions(ps) == DrawdownOverPositions(PositionDrawdowns(ps))

(***************************************************************************)
(* calculate_sharpe_ratio and get_trade_consistency_score.  Both take a    *)
(* square root; the results are held as rationals that determine them:     *)
(*   sharpe = ssqrt(SharpeSquare), consistency = 1 - ssqrt(SpreadSquare),  *)
(* where ssqrt(q) = sign(q) * sqrt(|q|) is strictly increasing, so order   *)
(* and equality of the results are those of the squares.                   *)
(***************************************************************************)
Mean(xs) == RDiv(RSum(xs), RInt(Len(xs)))

\* the mean of the squared distances of xs from m
MeanSquare(xs, m) ==
    RDiv(RSum([k \in 1..Len(xs) |-> RPow(RSub(xs[k], m), 2)]), RInt(Len(xs)))

\* np.std(xs) ** 2: the population variance
Variance(xs) == MeanSquare(xs, Mean(xs))

\* the sign of m as a factor
Sign(m) == IF RLt(m, Zero) THEN RInt(-1) ELSE One

\* sign(m) * m^2 / v
SignedSquareRatio(m, v) == RMul(Sign(m), RDiv(RPow(m, 2), v))

\* mean / std as its signed square, 0 for std = 0
SharpeOf(mean_return, variance) ==
    IF variance = Zero THEN Zero ELSE SignedSquareRatio(mean_return, variance)

\* sign(sharpe) * sharpe^2 for sharpe = calculate_sharpe_ratio(position_returns)
\* on the exact returns; the equal returns of the histories of the ranking
\* specification (ten of 1.1 - 1, ten of 1.2 - 1) have a double mean equal
\* to them, so that np.std is 0 for them as the variance is here
SharpeSquare(position_returns) ==
    IF Len(position_returns) < 2 THEN Zero
    ELSE SharpeOf(Mean(position_returns), Variance(position_returns))

(***************************************************************************)
(* calculate_sharpe_ratio on doubles.  np.mean is the sum of the array     *)
(* over its length; for fewer than eight elements the sum is taken left to *)
(* right, from 0.0 or from the first element.  np.std is the root of the   *)
(* mean of (x - mean)**2, which is 0.0 exactly when every x equals the     *)
(* rounded mean: a difference of two doubles this close is exact and its   *)
(* square does not underflow.                                              *)
(***************************************************************************)
\* line 496: mean_return = np.mean(returns), in each order of summation
MeanReturns(rs) ==
    {DblDivInt(DblSum(rs), Len(rs)),
     DblDivInt(DblAdd(rs[1], DblSum(Tail(rs))), Len(rs))}

\* line 497-498: std_return != 0 is false
StdIsZero(rs, mean_return) == \A k \in 1..Len(rs) : DblEq(rs[k], mean_return)

\* return 0
SharpeZero == [quotient |-> FALSE, mean_return |-> None]

\* return mean_return / std_return, held as the fact and the mean
SharpeQuotient(mean_return) == [quotient |-> TRUE, mean_return |-> Some(mean_return)]

\* lines 496-498
CalculateSharpeRatio(rs, mean_return) ==
    IF StdIsZero(rs, mean_return) THEN SharpeZero ELSE SharpeQuotient(mean_return)

\* sorted(miner['positions'], key=lambda pos: pos['open_ms']): stable
\* the positions that a stable sort by open_ms puts before s[k]
BeforeByOpen(s, k) ==
    {j \in 1..Len(s) : s[j].open_ms < s[k].open_ms \/ (s[j].open_ms = s[k].open_ms /\ j < k)}

SortByOpen(s) ==
    [i \in 1..Len(s) |-> s[CHOOSE k \in 1..Len(s) : Cardinality(BeforeByOpen(s, k)) = i - 1]]

\* lines 551-554
Intervals(positions) ==
    [k \in 1..(Len(positions) - 1) |->
        RInt(positions[k + 1].open_ms - positions[k].close_ms[1])]

\* line 559: std_interval / mean_interval as its signed square, 0 for mean 0
SpreadOf(mean_interval, variance) ==
    IF mean_interval = Zero THEN Zero
    ELSE RMul(Sign(mean_interval), RDiv(variance, RPow(mean_interval, 2)))

\* lines 548-559 for the sorted positions; int - None raises TypeError
SpreadOfSorted(positions) ==
    IF Len(positions) < 2 THEN Ok(One)
    ELSE IF \E k \in 1..(Len(positions) - 1) : positions[k].close_ms = None
         THEN Raise("TypeError")
    ELSE Ok(SpreadOf(Mean(Intervals(positions)), Variance(Intervals(positions))))

\* sign(x) * x^2 for x = std_interval / mean_interval (0 when the mean is 0)
\* of get_trade_consistency_score, which returns 1 - x, or 0 (x = 1) for
\* fewer than two positions
SpreadSquare(miner_positions) == SpreadOfSorted(SortByOpen(miner_positions))

(***************************************************************************)
(* calculate_miner_scores                                                  *)
(***************************************************************************)
\* np.log1p(n), to three decimals, for n = 1..20 positions
Log1pThousandths ==
    <<693, 1099, 1386, 1609, 1792, 1946, 2079, 2197, 2303, 2398,
      2485, 2565, 2639, 2708, 2773, 2833, 2890, 2944, 2996, 3045>>

Log1p(n) == Rat(Log1pThousandths[n], 1000)

\* position_returns of lines 379-389
PositionReturns(ps) ==
    [k \in 1..Len(ps) |->
        IF ps[k].is_closed_position
        THEN RSub(ps[k].return_at_close[1], One)
        ELSE RSub(ps[k].current_return, One)]

\* mutant: any miner with a trade passes
FailsMinTradesNever(total_trades) == total_trades < 1

\* line 393: if total_trades < self.MIN_TRADES: continue
FailsMinTrades(total_trades) == total_trades < MIN_TRADES

\* lines 379-389: profitable_trades
ProfitableTrades(position_returns) ==
    Cardinality({k \in 1..Len(position_returns) : RGt(position_returns[k], Zero)})

\* lines 400-420: the consistency score may have raised, the return may be
\* too low, else the entry is appended
MinerAfterRate(miner, max_drawdown, position_returns, percentage_profitable, consistency, total_return) ==
    IF consistency.raised # NoError THEN consistency
    ELSE IF RLe(total_return, MIN_TOTAL_RETURN) THEN Ok(None)
    ELSE Ok(Some([hotkey |-> miner.hotkey,
                  metrics |->
                     [max_drawdown |-> max_drawdown,
                      sharpe_ratio |-> SharpeSquare(position_returns),
                      total_return |-> total_return,
                      percentage_profitable |-> percentage_profitable,
                      position_count |-> Len(position_returns),
                      consistency_score |-> RNeg(consistency.value)]]))

\* mutant: no profitable rate is too low
FailsProfitableRateNever(percentage_profitable) == RLt(percentage_profitable, Zero)

\* line 397: if percentage_profitable < self.MIN_PROFITABLE_RATE: continue
FailsProfitableRate(percentage_profitable) == RLt(percentage_profitable, MIN_PROFITABLE_RATE)

\* lines 396-398
MinerAfterCount(miner, max_drawdown, position_returns, percentage_profitable) ==
    IF FailsProfitableRate(percentage_profitable) THEN Ok(None)
    ELSE MinerAfterRate(miner, max_drawdown, position_returns, percentage_profitable,
                        SpreadSquare(miner.positions), RSum(position_returns))

\* lines 392-396: total_trades is the number of positions
MinerAfterReturns(miner, max_drawdown, position_returns) ==
    IF FailsMinTrades(Len(position_returns)) THEN Ok(None)
    ELSE MinerAfterCount(miner, max_drawdown, position_returns,
                         Rat(ProfitableTrades(position_returns), Len(position_returns)))

\* lines 372-389
MinerAfterDrawdown(miner, dd) ==
    IF dd.raised # NoError THEN dd
    ELSE IF RLt(dd.value, MAX_DRAWDOWN_THRESHOLD) THEN Ok(None)
    ELSE MinerAfterReturns(miner, dd.value, PositionReturns(miner.positions))

\* lines 364-420, one miner: [raised, value] with value None for a miner
\* that is skipped and Some(entry) for an entry appended to metrics_data;
\* consistency_score holds the negated SpreadSquare, which orders the
\* miners as 1 - std/mean does
MinerMetrics(miner) ==
    IF miner.positions = <<>> THEN Ok(None)
    ELSE MinerAfterDrawdown(miner, CalculateMaxDrawdownFromPositions(miner.positions))

\* mutant: the return is subtracted from the score
TotalScoreMinusReturn(n, position_count_bonus) ==
    RSum(<<RPow(n.max_drawdown, DRAWDOWN_EXPONENT),
           RPow(n.sharpe_ratio, SHARPE_EXPONENT),
           RNeg(n.total_return),
           RPow(n.percentage_profitable, PROFITABLE_RATE_EXPONENT),
           RMul(n.position_count, position_count_bonus),
           n.consistency_score>>)

\* lines 457-464
TotalScore(n, position_count_bonus) ==
    RSum(<<RPow(n.max_drawdown, DRAWDOWN_EXPONENT),
           RPow(n.sharpe_ratio, SHARPE_EXPONENT),
           n.total_return,
           RPow(n.percentage_profitable, PROFITABLE_RATE_EXPONENT),
           RMul(n.position_count, position_count_bonus),
           n.consistency_score>>)

\* lines 457-464: normalized['total_score'] = ...
WithTotalScore(n, position_count_bonus) ==
    [hotkey |-> n.hotkey,
     max_drawdown |-> n.max_drawdown,
     total_return |-> n.total_return,
     sharpe_ratio |-> n.sharpe_ratio,
     percentage_profitable |-> n.percentage_profitable,
     position_count |-> n.position_count,
     consistency_score |-> n.consistency_score,
     total_score |-> TotalScore(n, position_count_bonus)]

\* lines 434-464, one entry of metrics_data with its three percentiles
Normalized(miner_data, sharpe_pct, count_pct, consistency_pct) ==
    WithTotalScore(
        [hotkey |-> miner_data.hotkey,
         max_drawdown |-> RPow(RAdd(One, miner_data.metrics.max_drawdown), 2),
         total_return |-> RAdd(One, miner_data.metrics.total_return),
         sharpe_ratio |-> sharpe_pct,
         percentage_profitable |-> miner_data.metrics.percentage_profitable,
         position_count |-> count_pct,
         consistency_score |-> consistency_pct],
        RDiv(Log1p(miner_data.metrics.position_count), RInt(POSITION_COUNT_DIVISOR)))

\* mutant: an entry is put before the entries of its score
RECURSIVE InsertByScoreBeforeEqual(_, _)
InsertByScoreBeforeEqual(s, n) ==
    IF s = <<>> THEN <<n>>
    ELSE IF RGt(s[Len(s)].total_score, n.total_score) THEN Append(s, n)
    ELSE Append(InsertByScoreBeforeEqual(SubSeq(s, 1, Len(s) - 1), n), s[Len(s)])

\* sorted(normalized_metrics, key=lambda x: x['total_score'], reverse=True)
RECURSIVE InsertByScore(_, _)
InsertByScore(s, n) ==
    IF s = <<>> THEN <<n>>
    ELSE IF RGe(s[Len(s)].total_score, n.total_score) THEN Append(s, n)
    ELSE Append(InsertByScore(SubSeq(s, 1, Len(s) - 1), n), s[Len(s)])

RECURSIVE SortByScore(_)
SortByScore(s) ==
    IF s = <<>> THEN <<>>
    ELSE InsertByScore(SortByScore(SubSeq(s, 1, Len(s) - 1)), s[Len(s)])

\* lines 422-468
NormalizeAndSort(entries) ==
    IF entries = <<>> THEN <<>>
    ELSE
    LET n == Len(entries)
        sharpe_percentiles ==
            NormalizeToPercentile([k \in 1..n |-> entries[k].metrics.sharpe_ratio], FALSE)
        position_count_percentiles ==
            NormalizeToPercentile([k \in 1..n |-> RInt(entries[k].metrics.position_count)], FALSE)
        consistency_percentiles ==
            NormalizeToPercentile([k \in 1..n |-> entries[k].metrics.consistency_score], FALSE)
    IN  SortByScore([k \in 1..n |->
            Normalized(entries[k], sharpe_percentiles[k],
                       position_count_percentiles[k], consistency_percentiles[k])])

(***************************************************************************)
(* filter_positions_by_assets and rank_miners.  Timestamps are counted in  *)
(* days, not milliseconds: they are only compared, subtracted and divided  *)
(* by each other.                                                          *)
(***************************************************************************)
InList(x, list) == \E k \in 1..Len(list) : list[k] = x

\* max(latest_trade, position["close_ms"]) over the closed positions kept
LatestTrade(latest, ps) ==
    CHOOSE m \in {latest} \cup {ps[k].close_ms[1] : k \in {j \in 1..Len(ps) : ps[j].is_closed_position}} :
        /\ m >= latest
        /\ \A k \in 1..Len(ps) : ps[k].is_closed_position => m >= ps[k].close_ms[1]

\* lines 291-333, one miner: None when the miner is dropped
FilterMiner(details, asset_list, t) ==
    LET InAssets(pos) == InList(pos.trade_pair[1], asset_list)
        filtered_positions == SelectSeq(details.positions, InAssets)
        latest_trade == LatestTrade(0, filtered_positions)
    IN  IF RLe(details.thirty_day_returns, Zero) THEN None
        ELSE IF RLe(details.all_time_returns, Zero) THEN None
        ELSE IF /\ MIN_TRADES_PER_ASSET > 0
                /\ \E k \in 1..Len(asset_list) :
                      LET OfAsset(pos) == pos.trade_pair[1] = asset_list[k]
                      IN  Len(SelectSeq(details.positions, OfAsset)) < MIN_TRADES_PER_ASSET
             THEN None
        ELSE IF latest_trade < t - MAX_TRADE_AGE_DAYS THEN None
        ELSE IF filtered_positions = <<>> THEN None
        ELSE Some([details EXCEPT !.positions = filtered_positions])

\* the miners that are kept, in the snapshot's order, with their positions filtered
FilterPositionsByAssets(snapshot, asset_list, t) ==
    LET Kept(details) == FilterMiner(details, asset_list, t) # None
        kept == SelectSeq(snapshot, Kept)
    IN  [k \in 1..Len(kept) |-> FilterMiner(kept[k], asset_list, t)[1]]

\* line 473-474
FilterIfAssets(pd, assets, t) ==
    IF assets # None /\ assets[1] # <<>>
    THEN FilterPositionsByAssets(pd, assets[1], t)
    ELSE pd

\* line 480: {miner['hotkey']: rank + 1 for rank, miner in enumerate(ranked_miners)}
Rankings(ranked) ==
    [h \in {ranked[k].hotkey : k \in 1..Len(ranked)} |->
        CHOOSE k \in 1..Len(ranked) :
            /\ ranked[k].hotkey = h
            /\ \A j \in (k + 1)..Len(ranked) : ranked[j].hotkey # h]

\* what rank_miners returns, or the exception it ends with
RankResult(scored) ==
    IF scored.raised # NoError
    THEN [raised |-> scored.raised, rankings |-> None, ranked_miners |-> None]
    ELSE [raised |-> NoError,
          rankings |-> Rankings(scored.value),
          ranked_miners |-> scored.value]

(***************************************************************************)
(* _process_signals.  asset_depths is a dict: a sequence of                *)
(* [symbol, entries] in insertion order.  An allocation weight is a        *)
(* double; an entry's leverage is taken at the weight's exact quotient     *)
(* inverted_rank / total_weight.                                           *)
(***************************************************************************)
\* line 90-92: sorted(data.items(), key=all_time_returns, reverse=True), sliced
SortedMiners(snapshot) ==
    LET swi == SortByValue(
                   Enumerate([k \in 1..Len(snapshot) |-> snapshot[k].all_time_returns]),
                   TRUE)
    IN  [k \in 1..Len(snapshot) |-> snapshot[swi[k][1]]]

\* line 91-92: if top_miners: sorted_miners = sorted_miners[:top_miners]
TopSlice(miners, top) ==
    IF top = None \/ top = Some(0) THEN miners
    ELSE SubSeq(miners, 1, IF top[1] < Len(miners) THEN top[1] ELSE Len(miners))

\* lines 116-123: the first trade_pair element that is a key of the mapping
RECURSIVE OriginalSymbol(_)
OriginalSymbol(trade_pair) ==
    IF trade_pair = <<>> THEN None
    ELSE IF InCoreAssets(Head(trade_pair)) THEN Some(Head(trade_pair))
    ELSE OriginalSymbol(Tail(trade_pair))

HasSymbol(depths, symbol) == \E k \in 1..Len(depths) : depths[k].symbol = symbol

\* lines 132-133: if symbol not in asset_depths: asset_depths[symbol] = []
WithSymbol(depths, symbol) ==
    IF HasSymbol(depths, symbol) THEN depths
    ELSE Append(depths, [symbol |-> symbol, entries |-> <<>>])

\* lines 151-160: the position's orders with their leverage weighted
WeightedOrders(os, original_symbol, allocation_weight) ==
    [k \in 1..Len(os) |->
        [order_type |-> os[k].order_type,
         leverage |-> RMul(os[k].leverage, DblQuotient(allocation_weight)),
         price |-> os[k].price,
         processed_ms |-> os[k].processed_ms,
         original_symbol |-> original_symbol]]

AppendEntries(depths, symbol, es) ==
    [k \in 1..Len(depths) |->
        IF depths[k].symbol = symbol
        THEN [depths[k] EXCEPT !.entries = @ \o es]
        ELSE depths[k]]

\* lines 143-144: the values that are only printed
CappedLeverage(net_pos) == RMin(net_pos, LEVERAGE_LIMIT_CRYPTO)
NormalizedDepth(net_pos, allocation_weight) ==
    RMul(RDiv(CappedLeverage(net_pos), LEVERAGE_LIMIT_CRYPTO), DblQuotient(allocation_weight))

\* lines 135-160: max() of no orders raises ValueError
PositionEntries(depths, position_data, original_symbol, symbol, allocation_weight) ==
    IF position_data.net_leverage = Zero \/ position_data.is_closed_position
    THEN Ok(depths)
    ELSE IF position_data.orders = <<>> THEN Raise("ValueError")
    ELSE Ok(AppendEntries(depths, symbol,
                          WeightedOrders(position_data.orders, original_symbol,
                                         allocation_weight)))

\* lines 124-133: an unmapped position is skipped, or the mapping lookup
\* of None raises KeyError
PositionMapped(depths, position_data, original_symbol, allocation_weight, mapped) ==
    IF mapped /\ original_symbol = None THEN Ok(depths)
    ELSE IF original_symbol = None THEN Raise("KeyError")
    ELSE PositionEntries(WithSymbol(depths, CORE_ASSET_MAPPING(original_symbol[1])),
                         position_data, original_symbol[1],
                         CORE_ASSET_MAPPING(original_symbol[1]), allocation_weight)

\* lines 113-160, one position; acc = [raised, value = asset_depths]
PositionStep(acc, position_data, allocation_weight, mapped) ==
    IF acc.raised # NoError THEN acc
    ELSE PositionMapped(acc.value, position_data,
                        OriginalSymbol(position_data.trade_pair), allocation_weight, mapped)

RECURSIVE PositionsFold(_, _, _, _)
PositionsFold(acc, ps, allocation_weight, mapped) ==
    IF ps = <<>> THEN acc
    ELSE PositionsFold(PositionStep(acc, Head(ps), allocation_weight, mapped),
                       Tail(ps), allocation_weight, mapped)

\* max(entry["processed_ms"] for entry in entries), entries not empty
RECURSIVE MaxMs(_)
MaxMs(entries) ==
    IF Len(entries) = 1 THEN entries[1].processed_ms
    ELSE LET m == MaxMs(Tail(entries))
         IN  IF entries[1].processed_ms >= m THEN entries[1].processed_ms ELSE m

\* lines 176-183: the price of the first entry with the last timestamp
LastPrice(entries, last_entry_ms) ==
    entries[CHOOSE k \in 1..Len(entries) :
                /\ entries[k].processed_ms = last_entry_ms
                /\ \A j \in 1..(k - 1) : entries[j].processed_ms # last_entry_ms].price

\* datetime.fromtimestamp(ms / 1000).strftime("%Y-%m-%d %H:%M:%S"): the
\* string names the second the timestamp falls in
FormatMs(ms) == ms \div 1000

\* lines 188-197
ResultOf(d, net, last_entry_ms) ==
    [symbol |-> d.symbol,
     original_symbols |-> {d.entries[k].original_symbol : k \in 1..Len(d.entries)},
     depth |-> net.net,
     price |-> LastPrice(d.entries, last_entry_ms),
     average_price |-> net.basis,
     timestamp |-> FormatMs(last_entry_ms)]

\* mutant: max() of no symbol at all raises as well
ResultsOfSome(depths) ==
    IF depths = <<>> \/ \E k \in 1..Len(depths) : depths[k].entries = <<>>
    THEN Raise("ValueError")
    ELSE Ok([k \in 1..Len(depths) |->
                ResultOf(depths[k], ComputeNet(depths[k].entries), MaxMs(depths[k].entries))])

\* lines 166-199: max() of the entries of a symbol that has none raises
Results(depths) ==
    IF \E k \in 1..Len(depths) : depths[k].entries = <<>> THEN Raise("ValueError")
    ELSE Ok([k \in 1..Len(depths) |->
                ResultOf(depths[k], ComputeNet(depths[k].entries), MaxMs(depths[k].entries))])

(***************************************************************************)
(* get_ranked_miners and the miner count cache file.  The file holds the   *)
(* decimal text of the count.                                              *)
(***************************************************************************)
Digits == <<"0", "1", "2", "3", "4", "5", "6", "7", "8", "9">>

\* str(n) for n >= 0
RECURSIVE StrOf(_)
StrOf(n) ==
    IF n < 10 THEN <<Digits[n + 1]>>
    ELSE Append(StrOf(n \div 10), Digits[(n % 10) + 1])

DigitValue(c) == CHOOSE v \in 0..9 : Digits[v + 1] = c

\* int(s) for a string of digits
RECURSIVE IntOf(_)
IntOf(s) ==
    IF Len(s) = 1 THEN DigitValue(s[1])
    ELSE 10 * IntOf(SubSeq(s, 1, Len(s) - 1)) + DigitValue(s[Len(s)])

\* lines 663-666: the file's new content
StoreKeyCount(current_key_count) == Some(StrOf(current_key_count))

\* mutant: a missing file reads as the count 0
FetchKeyCountZero(file) == IF file = None THEN 0 ELSE IntOf(file[1])

\* lines 668-673
FetchKeyCount(file) == IF file = None THEN -1 ELSE IntOf(file[1])

\* mutant: the count is stored before it is checked
FileStoredBeforeCheck(file, current_key_count) == StoreKeyCount(current_key_count)

\* lines 346-348: the file after the raise of line 347, which comes before
\* store_key_count
FileAfterAnomaly(file, current_key_count) == file

\* the delta of the counts is not tested
KeyCountAnomalyNoDelta(previous_key_count, current_key_count) ==
    previous_key_count >= 0 /\ current_key_count <= 50

\* line 346: the condition of the ValueError
KeyCountAnomaly(previous_key_count, current_key_count) ==
    /\ previous_key_count >= 0
    /\ \/ current_key_count <= 50
       \/ Abs(current_key_count - previous_key_count) > 10

\* lines 605-638, format_miner_results: iterating assets_to_trade = None for
\* a ranked miner raises TypeError; nothing else of it is kept
FormatRaises(ranked_miners, assets) == ranked_miners # <<>> /\ assets = None

(***************************************************************************)
(* Inputs of the net position calculator                                   *)
(***************************************************************************)
MaxOrders == 3

LevSet == {Rat(-3, 1), Rat(-1, 1), Zero, Rat(1, 1), Rat(1, 2)}
PriceSet == {RInt(100), RInt(110)}
MsSet == {1, 2}

TypeOf(l) == IF RLt(l, Zero) THEN SHORT ELSE LONG

Order(t, l, p, ms) ==
    [order_type |-> t, leverage |-> l, price |-> p, processed_ms |-> ms]

OrderSet ==
    {Order(TypeOf(l), l, p, ms) : l \in LevSet, p \in PriceSet, ms \in MsSet}
    \cup {Order(FLAT, Zero, RInt(110), 2),
          Order(<<" ", "f", "l", "a", "t", " ">>, Rat(-1, 1), RInt(100), 1)}

OrderSeqs == UNION {[1..n -> OrderSet] : n \in 0..MaxOrders}

(***************************************************************************)
(* Miner histories the model draws its snapshots from                      *)
(***************************************************************************)
Position(sym, closed, netlev, ret, open, close, os) ==
    [trade_pair |-> <<sym, sym>>,
     orders |-> os,
     is_closed_position |-> closed,
     net_leverage |-> netlev,
     return_at_close |-> IF closed THEN Some(ret) ELSE None,
     current_return |-> ret,
     open_ms |-> open,
     close_ms |-> close]

\* order lists of a position: no drawdown, a drawdown of 1/2, one of 2/3
CalmOrders == <<Order(LONG, Rat(1, 2), RInt(100), 1)>>
HalfOrders == <<Order(LONG, One, RInt(100), 1), Order(LONG, One, RInt(60), 2)>>
DeepOrders == <<Order(LONG, One, RInt(100), 1), Order(LONG, One, RInt(50), 2)>>

\* n positions, the first wins of them profitable, opened every other day;
\* open_at = 0: all closed, else the position at that index is still open
History(n, wins, gain, loss, os, sym, irregular, open_at) ==
    [k \in 1..n |->
        Position(sym, k # open_at,
                 IF k # open_at THEN Zero ELSE RSum([j \in 1..Len(os) |-> os[j].leverage]),
                 IF k <= wins THEN RAdd(One, gain) ELSE RSub(One, loss),
                 IF irregular /\ k % 2 = 0 THEN 2 * k ELSE 2 * k - 1,
                 IF k # open_at THEN Some(2 * k) ELSE None,
                 os)]

Miner(hotkey, atr, tdr, ps) ==
    [hotkey |-> hotkey, all_time_returns |-> atr, thirty_day_returns |-> tdr,
     positions |-> ps]

Tenth == Rat(1, 10)
Fifth == Rat(2, 10)

\* the last gain of the history "level": after a miner of history "steady"
\* it has the higher Sharpe ratio, and its higher return makes up for the
\* two percentiles in which it comes second, log1p(10)/5 + 1 - 1
LevelGain == RAdd(Tenth, RDiv(Log1p(10), RInt(POSITION_COUNT_DIVISOR)))

\* the histories of the ranking specification, by name
RankHistory(name) ==
    CASE name = "steady" -> History(10, 10, Tenth, Tenth, CalmOrders, "BTCUSD", FALSE, 0)
      [] name = "few" -> History(9, 9, Fifth, Tenth, CalmOrders, "BTCUSD", FALSE, 0)
      [] name = "swing" -> History(10, 8, Fifth, Tenth, HalfOrders, "BTCUSD", TRUE, 0)
      [] name = "deep" -> History(10, 10, Fifth, Tenth, DeepOrders, "BTCUSD", FALSE, 0)
      [] name = "coin" -> History(10, 5, Fifth, Tenth, CalmOrders, "BTCUSD", FALSE, 0)
      [] name = "loser" -> History(10, 6, Tenth, Fifth, CalmOrders, "BTCUSD", FALSE, 0)
      [] name = "even" -> History(10, 6, Fifth, Rat(3, 10), CalmOrders, "BTCUSD", FALSE, 0)
      [] name = "level" ->
            [History(10, 10, Tenth, Tenth, CalmOrders, "BTCUSD", FALSE, 0)
                EXCEPT ![10].return_at_close = Some(RAdd(One, LevelGain)),
                       ![10].current_return = RAdd(One, LevelGain)]
      [] name = "open" -> History(10, 7, Fifth, Tenth, CalmOrders, "BTCUSD", TRUE, 10)
      [] name = "midopen" -> History(10, 10, Tenth, Tenth, CalmOrders, "BTCUSD", FALSE, 5)
      [] name = "ether" ->
            History(9, 9, Fifth, Tenth, CalmOrders, "BTCUSD", FALSE, 0)
            \o <<Position("ETHUSD", TRUE, Zero, RAdd(One, Tenth), 19, Some(20), CalmOrders)>>
      [] name = "empty" -> <<>>

RankHistoryNames ==
    {"steady", "few", "swing", "deep", "coin", "loser", "even", "level", "open", "midopen",
     "ether"}

\* the hotkey of the k-th miner of a snapshot
Hotkey(k) == <<"hk", k>>

\* a snapshot: miner k has the k-th named history
Snapshot(names) ==
    [k \in 1..Len(names) |-> Miner(Hotkey(k), One, One, RankHistory(names[k]))]

DdIdle ==
    /\ dd_orders = <<>>
    /\ di = 0
    /\ cumulative_leverage = Zero
    /\ weighted_sum_price = Zero
    /\ max_dd = Zero
    /\ dd_out = None

DblIdle == dbl_orders = <<>> /\ dbl_net_position = None

ScoreIdle ==
    /\ entry = None
    /\ percentiles = <<>>
    /\ higher_return = Zero
    /\ scores = <<>>
    /\ returns = <<>>
    /\ sharpe_ratio = None
    /\ DdIdle
    /\ DblIdle

SigIdle ==
    /\ raw_signals = None
    /\ top_miners = None
    /\ mapped_only = TRUE
    /\ sorted_miners = <<>>
    /\ sig_allocations = <<>>
    /\ asset_depths = <<>>
    /\ miner_tracker = <<>>
    /\ si = 0
    /\ sig_out = None

GuardIdle ==
    /\ key_count_file = None
    /\ caller = "none"
    /\ runs = 0
    /\ grm_out = Ok(None)
    /\ grm_log = <<>>

RankIdle ==
    /\ positions_data = <<>>
    /\ assets_to_trade = None
    /\ now = 0
    /\ data = <<>>
    /\ mi = 0
    /\ metrics_data = <<>>
    /\ rank_out = None

PctIdle ==
    /\ values = <<>>
    /\ reverse = FALSE
    /\ sorted_with_idx = <<>>
    /\ pi = 0
    /\ ranks = <<>>

GradIdle ==
    /\ max_rank = 0
    /\ rank = 0
    /\ total_weight = 0
    /\ allocations = <<>>

(***************************************************************************)
(* SpecNet: one call of _compute_net_position_and_average_price, stepped   *)
(* through its statements.                                                 *)
(***************************************************************************)
InitNet ==
    /\ orders \in OrderSeqs
    /\ pc = "net_sort"
    /\ sorted_orders = <<>>
    /\ oi = 0
    /\ net_position = Zero
    /\ cost_basis = Zero
    /\ GradIdle
    /\ PctIdle
    /\ RankIdle
    /\ ScoreIdle
    /\ SigIdle
    /\ GuardIdle

\* line 218-221: sort, initialise the accumulators
NetSort ==
    /\ pc = "net_sort"
    /\ sorted_orders' = SortByMs(orders)
    /\ orders' = ArgumentAfterSorted(orders)
    /\ net_position' = Zero
    /\ cost_basis' = Zero
    /\ oi' = 1
    /\ pc' = "net_flat"
    /\ UNCHANGED <<gradVars, pctVars, rankVars, scoreVars, sigVars, guardVars>>

\* line 224-226: a FLAT order anywhere returns (0.0, 0.0)
NetFlatReturn ==
    /\ pc = "net_flat"
    /\ AnyFlat(sorted_orders)
    /\ pc' = "net_done"
    /\ UNCHANGED <<netVars, gradVars, pctVars, rankVars, scoreVars, sigVars, guardVars>>

\* line 228-254: one iteration of the loop
NetLoop ==
    /\ pc \in {"net_flat", "net_loop"}
    /\ pc = "net_flat" => ~AnyFlat(sorted_orders)
    /\ oi <= Len(sorted_orders)
    /\ LET st == NetStep([net |-> net_position, basis |-> cost_basis],
                         sorted_orders[oi])
       IN  /\ net_position' = st.net
           /\ cost_basis' = st.basis
    /\ oi' = oi + 1
    /\ pc' = "net_loop"
    /\ UNCHANGED <<orders, sorted_orders, gradVars, pctVars, rankVars, scoreVars, sigVars, guardVars>>

\* line 256: return net_position, cost_basis
NetReturn ==
    /\ pc \in {"net_flat", "net_loop"}
    /\ pc = "net_flat" => ~AnyFlat(sorted_orders)
    /\ oi > Len(sorted_orders)
    /\ pc' = "net_done"
    /\ UNCHANGED <<netVars, gradVars, pctVars, rankVars, scoreVars, sigVars, guardVars>>

NextNet == NetSort \/ NetFlatReturn \/ NetLoop \/ NetReturn

SpecNet == InitNet /\ [][NextNet]_vars

(***************************************************************************)
(* SpecGrad: one call of _calculate_gradient_allocation, stepped through   *)
(* its loop.                                                               *)
(***************************************************************************)
MaxRank == 14

NetIdle ==
    /\ orders = <<>>
    /\ sorted_orders = <<>>
    /\ oi = 0
    /\ net_position = Zero
    /\ cost_basis = Zero

InitGrad ==
    /\ max_rank \in 0..MaxRank
    /\ pc = "grad_total"
    /\ rank = 0
    /\ total_weight = 0
    /\ allocations = <<>>
    /\ NetIdle
    /\ PctIdle
    /\ RankIdle
    /\ ScoreIdle
    /\ SigIdle
    /\ GuardIdle

\* line 205-208
GradTotal ==
    /\ pc = "grad_total"
    /\ total_weight' = GradientTotal(max_rank)
    /\ allocations' = <<>>
    /\ rank' = 1
    /\ pc' = "grad_loop"
    /\ UNCHANGED <<max_rank, netVars, pctVars, rankVars, scoreVars, sigVars, guardVars>>

\* line 209-211: one iteration
GradLoop ==
    /\ pc = "grad_loop"
    /\ rank <= max_rank
    /\ allocations' =
           Append(allocations, DblDiv(InvertedRank(max_rank, rank), total_weight))
    /\ rank' = rank + 1
    /\ UNCHANGED <<pc, max_rank, total_weight, netVars, pctVars, rankVars, scoreVars, sigVars, guardVars>>

\* line 212
GradReturn ==
    /\ pc = "grad_loop"
    /\ rank > max_rank
    /\ pc' = "grad_done"
    /\ UNCHANGED <<netVars, gradVars, pctVars, rankVars, scoreVars, sigVars, guardVars>>

NextGrad == GradTotal \/ GradLoop \/ GradReturn

SpecGrad == InitGrad /\ [][NextGrad]_vars

(***************************************************************************)
(* SpecPct: one call of normalize_to_percentile, stepped through its loop. *)
(***************************************************************************)
MaxValues == 4

ValueSet == {RInt(5), RInt(10), RInt(20), RInt(30)}

InitPct ==
    /\ values \in UNION {[1..n -> ValueSet] : n \in 0..MaxValues}
    /\ reverse \in BOOLEAN
    /\ pc = "pct_start"
    /\ sorted_with_idx = <<>>
    /\ pi = 0
    /\ ranks = <<>>
    /\ NetIdle
    /\ GradIdle
    /\ RankIdle
    /\ ScoreIdle
    /\ SigIdle
    /\ GuardIdle

\* line 567-568
PctEmpty ==
    /\ pc = "pct_start"
    /\ values = <<>>
    /\ ranks' = <<>>
    /\ pc' = "pct_done"
    /\ UNCHANGED <<values, reverse, sorted_with_idx, pi, netVars, gradVars, rankVars, scoreVars, sigVars, guardVars>>

\* line 570-573
PctSort ==
    /\ pc = "pct_start"
    /\ values # <<>>
    /\ sorted_with_idx' = SortByValue(Enumerate(values), ~reverse)
    /\ ranks' = [k \in 1..Len(values) |-> Zero]
    /\ pi' = 1
    /\ pc' = "pct_loop"
    /\ UNCHANGED <<values, reverse, netVars, gradVars, rankVars, scoreVars, sigVars, guardVars>>

\* line 574-575: one iteration
PctLoop ==
    /\ pc = "pct_loop"
    /\ pi <= Len(sorted_with_idx)
    /\ ranks' = [ranks EXCEPT ![sorted_with_idx[pi][1]] =
                    PercentileScore(pi - 1, Len(sorted_with_idx))]
    /\ pi' = pi + 1
    /\ UNCHANGED <<pc, values, reverse, sorted_with_idx, netVars, gradVars, rankVars, scoreVars, sigVars, guardVars>>

\* line 577
PctReturn ==
    /\ pc = "pct_loop"
    /\ pi > Len(sorted_with_idx)
    /\ pc' = "pct_done"
    /\ UNCHANGED <<pctVars, netVars, gradVars, rankVars, scoreVars, sigVars, guardVars>>

NextPct == PctEmpty \/ PctSort \/ PctLoop \/ PctReturn

SpecPct == InitPct /\ [][NextPct]_vars

(***************************************************************************)
(* SpecRank: one call of rank_miners, stepped through the miner loop of    *)
(* calculate_miner_scores.                                                 *)
(***************************************************************************)
MaxMiners == 2

InitRank ==
    /\ \E names \in UNION {[1..n -> RankHistoryNames] : n \in 0..MaxMiners} :
          positions_data = Snapshot(names)
    /\ \E a \in {<<None, 30>>, <<Some(CoreAssets), 30>>, <<Some(<<"BTCUSD">>), 30>>,
                 <<Some(<<"BTCUSD">>), 40>>} :
          assets_to_trade = a[1] /\ now = a[2]
    /\ pc = "rank_start"
    /\ data = <<>>
    /\ mi = 0
    /\ metrics_data = <<>>
    /\ rank_out = None
    /\ NetIdle
    /\ GradIdle
    /\ PctIdle
    /\ ScoreIdle
    /\ SigIdle
    /\ GuardIdle

\* rank_miners line 473-474, calculate_miner_scores line 361
RankFilter ==
    /\ pc = "rank_start"
    /\ data' = FilterIfAssets(positions_data, assets_to_trade, now)
    /\ metrics_data' = <<>>
    /\ mi' = 1
    /\ pc' = "rank_loop"
    /\ UNCHANGED <<positions_data, assets_to_trade, now, rank_out, netVars, gradVars, pctVars, scoreVars, sigVars, guardVars>>

\* calculate_miner_scores line 363-420: one miner that is skipped or kept
RankScoreMiner ==
    /\ pc = "rank_loop"
    /\ mi <= Len(data)
    /\ \E m \in {MinerMetrics(data[mi])} :
           /\ m.raised = NoError
           /\ metrics_data' =
                  IF m.value = None THEN metrics_data ELSE Append(metrics_data, m.value[1])
    /\ mi' = mi + 1
    /\ UNCHANGED <<pc, positions_data, assets_to_trade, now, data, rank_out,
                   netVars, gradVars, pctVars, scoreVars, sigVars, guardVars>>

\* calculate_miner_scores: a miner whose metrics raise ends the call
RankRaise ==
    /\ pc = "rank_loop"
    /\ mi <= Len(data)
    /\ \E m \in {MinerMetrics(data[mi])} :
           /\ m.raised # NoError
           /\ rank_out' = RankResult(m)
    /\ pc' = "rank_done"
    /\ UNCHANGED <<positions_data, assets_to_trade, now, data, mi, metrics_data,
                   netVars, gradVars, pctVars, scoreVars, sigVars, guardVars>>

\* calculate_miner_scores line 422-468, rank_miners line 480-482
RankReturn ==
    /\ pc = "rank_loop"
    /\ mi > Len(data)
    /\ rank_out' = RankResult(Ok(NormalizeAndSort(metrics_data)))
    /\ pc' = "rank_done"
    /\ UNCHANGED <<positions_data, assets_to_trade, now, data, mi, metrics_data,
                   netVars, gradVars, pctVars, scoreVars, sigVars, guardVars>>

NextRank == RankFilter \/ RankScoreMiner \/ RankRaise \/ RankReturn

SpecRank == InitRank /\ [][NextRank]_vars

(***************************************************************************)
(* SpecScore: lines 434-464 of calculate_miner_scores applied to one entry *)
(* of metrics_data, and to the same entry with a higher total_return.      *)
(***************************************************************************)
\* entries that pass the filters of lines 375-408
ScoreEntries ==
    {[hotkey |-> Hotkey(1),
      metrics |-> [max_drawdown |-> dd, sharpe_ratio |-> Zero, total_return |-> tr,
                   percentage_profitable |-> pp, position_count |-> n,
                   consistency_score |-> Zero]] :
        dd \in {Zero, Rat(-1, 2)}, tr \in {Tenth, One, Rat(7, 5)},
        pp \in {Rat(6, 10), Rat(8, 10), One}, n \in {10, 20}}

\* percentile scores of cohorts of up to three entries
PercentileSet == {Zero, Rat(1, 2), One}

InitScore ==
    /\ entry \in ScoreEntries
    /\ percentiles \in PercentileSet \X PercentileSet \X PercentileSet
    /\ higher_return \in {Tenth, One, Rat(7, 5), RInt(2)}
    /\ RLe(entry.metrics.total_return, higher_return)
    /\ scores = <<>>
    /\ returns = <<>>
    /\ sharpe_ratio = None
    /\ DdIdle
    /\ DblIdle
    /\ pc = "score_start"
    /\ NetIdle
    /\ GradIdle
    /\ PctIdle
    /\ RankIdle
    /\ SigIdle
    /\ GuardIdle

\* lines 434-464 for the entry as it is and with the higher return
ScoreNormalize ==
    /\ pc = "score_start"
    /\ scores' =
          <<Normalized(entry, percentiles[1], percentiles[2], percentiles[3]),
            Normalized([entry EXCEPT !.metrics.total_return = higher_return],
                       percentiles[1], percentiles[2], percentiles[3])>>
    /\ pc' = "score_done"
    /\ UNCHANGED <<entry, percentiles, higher_return, returns, sharpe_ratio, ddVars, dblVars,
                   netVars, gradVars, pctVars, rankVars, sigVars, guardVars>>

NextScore == ScoreNormalize

SpecScore == InitScore /\ [][NextScore]_vars

(***************************************************************************)
(* SpecSharpe: one call of calculate_sharpe_ratio on a list of doubles.    *)
(***************************************************************************)
MaxReturns == 3

\* the doubles 0.1, 0.2, 0.3, 0.4
ReturnSet == {DblDiv(k, 10) : k \in 1..4}

InitSharpe ==
    /\ returns \in UNION {[1..n -> ReturnSet] : n \in 0..MaxReturns}
    /\ sharpe_ratio = None
    /\ DdIdle
    /\ DblIdle
    /\ entry = None
    /\ percentiles = <<>>
    /\ higher_return = Zero
    /\ scores = <<>>
    /\ pc = "sharpe_start"
    /\ NetIdle
    /\ GradIdle
    /\ PctIdle
    /\ RankIdle
    /\ SigIdle
    /\ GuardIdle

\* lines 493-494: if len(position_returns) < 2: return 0
SharpeFew ==
    /\ pc = "sharpe_start"
    /\ Len(returns) < 2
    /\ sharpe_ratio' = SharpeZero
    /\ pc' = "sharpe_done"
    /\ UNCHANGED <<entry, percentiles, higher_return, scores, returns, ddVars, dblVars, netVars,
                   gradVars, pctVars, rankVars, sigVars, guardVars>>

\* lines 495-498
SharpeOfReturns ==
    /\ pc = "sharpe_start"
    /\ Len(returns) >= 2
    /\ \E mean_return \in MeanReturns(returns) :
           sharpe_ratio' = CalculateSharpeRatio(returns, mean_return)
    /\ pc' = "sharpe_done"
    /\ UNCHANGED <<entry, percentiles, higher_return, scores, returns, ddVars, dblVars, netVars,
                   gradVars, pctVars, rankVars, sigVars, guardVars>>

NextSharpe == SharpeFew \/ SharpeOfReturns

SpecSharpe == InitSharpe /\ [][NextSharpe]_vars

(***************************************************************************)
(* SpecDrawdown: one call of calculate_max_drawdown_from_orders, stepped   *)
(* through its loop.                                                       *)
(***************************************************************************)
MaxDdOrders == 3

DdLevSet == {Rat(-2, 1), Rat(-1, 1), Zero, One}
DdPriceSet == {Zero, RInt(50), RInt(100), RInt(110)}

DdOrderSet == {Order(TypeOf(l), l, p, 1) : l \in DdLevSet, p \in DdPriceSet}

InitDrawdown ==
    /\ dd_orders \in UNION {[1..n -> DdOrderSet] : n \in 0..MaxDdOrders}
    /\ di = 1
    /\ cumulative_leverage = Zero
    /\ weighted_sum_price = Zero
    /\ max_dd = Zero
    /\ dd_out = None
    /\ DblIdle
    /\ pc = "dd_loop"
    /\ entry = None
    /\ percentiles = <<>>
    /\ higher_return = Zero
    /\ scores = <<>>
    /\ returns = <<>>
    /\ sharpe_ratio = None
    /\ NetIdle
    /\ GradIdle
    /\ PctIdle
    /\ RankIdle
    /\ SigIdle
    /\ GuardIdle

\* the locals of the loop as the state that DrawdownStep takes
DdLocals ==
    [cum |-> cumulative_leverage, wsum |-> weighted_sum_price, mdd |-> max_dd,
     raised |-> NoError]

\* lines 507-532: one iteration of the loop that does not raise
DdOrder ==
    /\ pc = "dd_loop"
    /\ di <= Len(dd_orders)
    /\ \E st \in {DrawdownStep(DdLocals, dd_orders[di])} :
           /\ st.raised = NoError
           /\ cumulative_leverage' = st.cum
           /\ weighted_sum_price' = st.wsum
           /\ max_dd' = st.mdd
    /\ di' = di + 1
    /\ UNCHANGED <<pc, dd_orders, dd_out, entry, percentiles, higher_return, scores, returns,
                   sharpe_ratio, dblVars, netVars, gradVars, pctVars, rankVars, sigVars, guardVars>>

\* lines 517-529: the division by an average price of zero raises
DdRaise ==
    /\ pc = "dd_loop"
    /\ di <= Len(dd_orders)
    /\ \E st \in {DrawdownStep(DdLocals, dd_orders[di])} :
           /\ st.raised # NoError
           /\ cumulative_leverage' = st.cum
           /\ weighted_sum_price' = st.wsum
           /\ dd_out' = Raise(st.raised)
    /\ pc' = "dd_done"
    /\ UNCHANGED <<dd_orders, di, max_dd, entry, percentiles, higher_return, scores,
                   returns, sharpe_ratio, dblVars, netVars, gradVars, pctVars, rankVars, sigVars,
                   guardVars>>

\* line 534: return max_drawdown
DdReturn ==
    /\ pc = "dd_loop"
    /\ di > Len(dd_orders)
    /\ dd_out' = Ok(max_dd)
    /\ pc' = "dd_done"
    /\ UNCHANGED <<dd_orders, di, cumulative_leverage, weighted_sum_price, max_dd,
                   entry, percentiles, higher_return, scores, returns, sharpe_ratio, dblVars, netVars,
                   gradVars, pctVars, rankVars, sigVars, guardVars>>

NextDrawdown == DdOrder \/ DdRaise \/ DdReturn

SpecDrawdown == InitDrawdown /\ [][NextDrawdown]_vars

(***************************************************************************)
(* The call of _compute_net_position_and_average_price in doubles, on      *)
(* LONG orders whose leverages are the doubles 0.1, 0.2 and 0.3.  The      *)
(* branches of the loop test net_position and qty only and net_position is *)
(* never computed from cost_basis, so net_position is followed alone, in   *)
(* the arithmetic of doubles.                                              *)
(***************************************************************************)
MaxDblOrders == 3

DblLevSet == {DblDiv(k, 10) : k \in 1..3}

DblMsSet == 1..3

DblOrderSet == {Order(LONG, l, RInt(100), ms) : l \in DblLevSet, ms \in DblMsSet}

\* the float 0.0
DblZero == [a |-> 0, t |-> 10, d |-> 0, s |-> 52]

\* lines 218-256, net_position for orders of positive leverage: the first
\* order of sorted_orders takes the branch of lines 245-248 (qty + 0.0 is
\* qty), every later one the branch of lines 238-240, a float addition
NetPositionOfLongs(os) ==
    IF os = <<>> THEN DblZero
    ELSE DblSum([k \in 1..Len(os) |-> SortByMs(os)[k].leverage])

InitNetDouble ==
    /\ dbl_orders \in UNION {[1..n -> DblOrderSet] : n \in 0..MaxDblOrders}
    /\ dbl_net_position = None
    /\ pc = "dblnet_start"
    /\ entry = None
    /\ percentiles = <<>>
    /\ higher_return = Zero
    /\ scores = <<>>
    /\ returns = <<>>
    /\ sharpe_ratio = None
    /\ DdIdle
    /\ NetIdle
    /\ GradIdle
    /\ PctIdle
    /\ RankIdle
    /\ SigIdle
    /\ GuardIdle

\* the call, from line 218 to the return of line 256
NetDoubleCall ==
    /\ pc = "dblnet_start"
    /\ dbl_net_position' = Some(NetPositionOfLongs(dbl_orders))
    /\ pc' = "dblnet_done"
    /\ UNCHANGED <<dbl_orders, entry, percentiles, higher_return, scores, returns,
                   sharpe_ratio, ddVars, netVars, gradVars, pctVars, rankVars, sigVars,
                   guardVars>>

(***************************************************************************)
(* SpecSignals: one call of _process_signals, stepped through its loop     *)
(* over the miners.                                                        *)
(***************************************************************************)
MaxSigMiners == 2

\* the open and closed positions of a miner of the signal specification
SigHistory(name) ==
    CASE name = "big" ->
            <<Position("BTCUSD", FALSE, RInt(3), One, 1, None,
                       <<Order(LONG, RInt(3), RInt(100), 1)>>)>>
      [] name = "half" ->
            <<Position("BTCUSD", FALSE, Rat(1, 2), One, 1, None,
                       <<Order(LONG, Rat(1, 2), RInt(100), 1)>>)>>
      [] name = "short" ->
            <<Position("ETHUSD", FALSE, RInt(-1), One, 2, None,
                       <<Order(SHORT, RInt(-1), RInt(110), 2)>>)>>
      [] name = "closed" ->
            <<Position("BTCUSD", TRUE, Zero, RAdd(One, Tenth), 1, Some(2), CalmOrders)>>
      [] name = "unmapped" ->
            <<Position("XRPUSD", FALSE, One, One, 1, None,
                       <<Order(LONG, One, RInt(100), 1)>>)>>
      [] name = "pair" ->
            <<Position("BTCUSD", FALSE, One, One, 1, None,
                       <<Order(LONG, One, RInt(100), 1)>>),
              Position("BTCUSD", FALSE, Rat(1, 2), One, 2, None,
                       <<Order(LONG, Rat(1, 2), RInt(110), 2)>>)>>
      [] name = "flat" ->
            <<Position("BTCUSD", FALSE, One, One, 1, None,
                       <<Order(LONG, One, RInt(100), 1), Order(FLAT, Zero, RInt(110), 2)>>)>>

SigHistoryNames == {"big", "half", "short", "closed", "unmapped", "pair", "flat"}

\* each choice is <<history name, all_time_returns>>
SigSnapshot(choices) ==
    [k \in 1..Len(choices) |->
        Miner(Hotkey(k), choices[k][2], One, SigHistory(choices[k][1]))]

InitSignals ==
    /\ \/ raw_signals = None
       \/ \E choices \in UNION {[1..n -> SigHistoryNames \X {One, RInt(2)}] :
                                   n \in 0..MaxSigMiners} :
             raw_signals = Some(SigSnapshot(choices))
    /\ top_miners \in {None, Some(1), Some(5)}
    /\ mapped_only \in BOOLEAN
    /\ sorted_miners = <<>>
    /\ sig_allocations = <<>>
    /\ asset_depths = <<>>
    /\ miner_tracker = <<>>
    /\ si = 0
    /\ sig_out = None
    /\ pc = "sig_start"
    /\ NetIdle
    /\ GradIdle
    /\ PctIdle
    /\ RankIdle
    /\ ScoreIdle
    /\ GuardIdle

\* lines 86-87: if data is None: return []
SigNone ==
    /\ pc = "sig_start"
    /\ raw_signals = None
    /\ sig_out' = Ok(<<>>)
    /\ pc' = "sig_done"
    /\ UNCHANGED <<raw_signals, top_miners, mapped_only, sorted_miners, sig_allocations,
                   asset_depths, miner_tracker, si, netVars, gradVars, pctVars,
                   rankVars, scoreVars, guardVars>>

\* lines 90-99
SigSort ==
    /\ pc = "sig_start"
    /\ raw_signals # None
    /\ sorted_miners' = TopSlice(SortedMiners(raw_signals[1]), top_miners)
    /\ sig_allocations' = GradientAllocation(Len(sorted_miners'))
    /\ asset_depths' = <<>>
    /\ miner_tracker' = <<>>
    /\ si' = 1
    /\ pc' = "sig_loop"
    /\ UNCHANGED <<raw_signals, top_miners, mapped_only, sig_out, netVars, gradVars,
                   pctVars, rankVars, scoreVars, guardVars>>

\* lines 102-160, one miner of the loop; the keys of a dict are distinct, so
\* no miner is met twice and the skip of lines 105-107 is never taken
SigMiner ==
    /\ pc = "sig_loop"
    /\ si <= Len(sorted_miners)
    /\ ~InList(sorted_miners[si].hotkey, miner_tracker)
    /\ \E r \in {PositionsFold(Ok(asset_depths), sorted_miners[si].positions,
                               sig_allocations[si], mapped_only)} :
           /\ r.raised = NoError
           /\ asset_depths' = r.value
    /\ miner_tracker' = Append(miner_tracker, sorted_miners[si].hotkey)
    /\ si' = si + 1
    /\ UNCHANGED <<pc, raw_signals, top_miners, mapped_only, sorted_miners,
                   sig_allocations, sig_out, netVars, gradVars, pctVars, rankVars,
                   scoreVars, guardVars>>

\* a position of the miner raises and ends the call
SigMinerRaise ==
    /\ pc = "sig_loop"
    /\ si <= Len(sorted_miners)
    /\ ~InList(sorted_miners[si].hotkey, miner_tracker)
    /\ \E r \in {PositionsFold(Ok(asset_depths), sorted_miners[si].positions,
                               sig_allocations[si], mapped_only)} :
           /\ r.raised # NoError
           /\ sig_out' = r
    /\ miner_tracker' = Append(miner_tracker, sorted_miners[si].hotkey)
    /\ pc' = "sig_done"
    /\ UNCHANGED <<raw_signals, top_miners, mapped_only, sorted_miners, sig_allocations,
                   asset_depths, si, netVars, gradVars, pctVars, rankVars, scoreVars,
                   guardVars>>

\* lines 164-199: the results, or the exception of a symbol without entries
SigReturn ==
    /\ pc = "sig_loop"
    /\ si > Len(sorted_miners)
    /\ sig_out' = Results(asset_depths)
    /\ pc' = "sig_done"
    /\ UNCHANGED <<raw_signals, top_miners, mapped_only, sorted_miners, sig_allocations,
                   asset_depths, miner_tracker, si, netVars, gradVars, pctVars,
                   rankVars, scoreVars, guardVars>>

NextSignals == SigNone \/ SigSort \/ SigMiner \/ SigMinerRaise \/ SigReturn

SpecSignals == InitSignals /\ [][NextSignals]_vars

(***************************************************************************)
(* SpecNetSum: one call of _compute_net_position_and_average_price, on     *)
(* orders whose leverages float arithmetic adds exactly or on orders whose *)
(* leverages are tenths, or one call of _process_signals.                  *)
(***************************************************************************)
InitNetSum == InitNet \/ InitNetDouble \/ InitSignals

NextNetSum == NextNet \/ NetDoubleCall \/ NextSignals

SpecNetSum == InitNetSum /\ [][NextNetSum]_vars

(***************************************************************************)
(* SpecCohort: one call of either entry point on a snapshot, rank_miners   *)
(* or _process_signals.                                                    *)
(***************************************************************************)
InitCohort == InitRank \/ InitSignals

NextCohort == NextRank \/ NextSignals

SpecCohort == InitCohort /\ [][NextCohort]_vars

(***************************************************************************)
(* SpecCalls: one call of _compute_net_position_and_average_price, of      *)
(* rank_miners (with filter_positions_by_assets inside it) or of           *)
(* _process_signals, on the caller's orders or snapshot.                   *)
(***************************************************************************)
InitCalls == InitNet \/ InitRank \/ InitSignals

NextCalls == NextNet \/ NextRank \/ NextSignals

SpecCalls == InitCalls /\ [][NextCalls]_vars

(***************************************************************************)
(* SpecGuard: calls of get_ranked_miners, one after the other, that share  *)
(* the cache file.  Each call runs rank_miners through the actions of      *)
(* SpecRank.                                                               *)
(***************************************************************************)
MaxRuns == 2

\* the miner counts of the snapshots
KeyCounts == {40, 50, 51, 61, 62, 100, 112}

\* a snapshot of count miners: the named histories, then miners without positions
GuardSnapshot(names, count) ==
    [k \in 1..count |->
        Miner(Hotkey(k), One, One, IF k <= Len(names) THEN RankHistory(names[k]) ELSE <<>>)]

GuardSnapshots ==
    {GuardSnapshot(names, count) :
        names \in {<<>>, <<"steady">>, <<"midopen">>}, count \in KeyCounts}

\* the cache file is absent, or holds the count that a run of an earlier
\* process has stored
InitGuard ==
    /\ key_count_file \in {None} \cup {StoreKeyCount(count) : count \in KeyCounts}
    /\ caller = "none"
    /\ runs = 0
    /\ grm_out = Ok(None)
    /\ grm_log = <<>>
    /\ pc = "grm_idle"
    /\ NetIdle
    /\ GradIdle
    /\ PctIdle
    /\ RankIdle
    /\ ScoreIdle
    /\ SigIdle

\* a finished call: the snapshot fetched (None when the fetch failed), the
\* argument assets_to_trade and what the call returned or raised
Finished(snapshot, assets, out) == [snapshot |-> snapshot, assets |-> assets, out |-> out]

\* lines 338-341: the fetch fails and (None, None) is returned
GrmFetchFailed ==
    /\ pc = "grm_idle"
    /\ runs < MaxRuns
    /\ runs' = runs + 1
    /\ grm_out' = Ok(<<None, None>>)
    /\ grm_log' = Append(grm_log, Finished(None, None, Ok(<<None, None>>)))
    /\ UNCHANGED <<pc, key_count_file, caller, netVars, gradVars, pctVars, rankVars,
                   scoreVars, sigVars>>

\* lines 338-347: the count is an anomaly and ValueError is raised
GrmAnomaly ==
    /\ pc = "grm_idle"
    /\ runs < MaxRuns
    /\ runs' = runs + 1
    /\ \E snapshot \in GuardSnapshots :
           /\ KeyCountAnomaly(FetchKeyCount(key_count_file), Len(snapshot))
           /\ positions_data' = snapshot
           /\ key_count_file' = FileAfterAnomaly(key_count_file, Len(snapshot))
    /\ \E assets \in {None, Some(CoreAssets)} : assets_to_trade' = assets
    /\ grm_out' = Raise("ValueError")
    /\ grm_log' = Append(grm_log, Finished(Some(positions_data'), assets_to_trade', grm_out'))
    /\ UNCHANGED <<pc, caller, now, data, mi, metrics_data, rank_out,
                   netVars, gradVars, pctVars, scoreVars, sigVars>>

\* lines 338-351: the count is stored and rank_miners is called
GrmRank ==
    /\ pc = "grm_idle"
    /\ runs < MaxRuns
    /\ runs' = runs + 1
    /\ \E snapshot \in GuardSnapshots :
           /\ ~KeyCountAnomaly(FetchKeyCount(key_count_file), Len(snapshot))
           /\ positions_data' = snapshot
           /\ key_count_file' = StoreKeyCount(Len(snapshot))
    /\ \E assets \in {None, Some(CoreAssets)} : assets_to_trade' = assets
    /\ now' = 30
    /\ data' = <<>>
    /\ mi' = 0
    /\ metrics_data' = <<>>
    /\ rank_out' = None
    /\ grm_out' = Ok(None)
    /\ caller' = "get_ranked_miners"
    /\ pc' = "rank_start"
    /\ UNCHANGED <<grm_log, netVars, gradVars, pctVars, scoreVars, sigVars>>

\* line 351 or 354: rank_miners or format_miner_results raised
GrmRaise ==
    /\ pc = "rank_done"
    /\ caller = "get_ranked_miners"
    /\ \/ /\ rank_out.raised # NoError
          /\ grm_out' = Raise(rank_out.raised)
       \/ /\ rank_out.raised = NoError
          /\ FormatRaises(rank_out.ranked_miners, assets_to_trade)
          /\ grm_out' = Raise("TypeError")
    /\ caller' = "none"
    /\ pc' = "grm_idle"
    /\ grm_log' = Append(grm_log, Finished(Some(positions_data), assets_to_trade, grm_out'))
    /\ UNCHANGED <<key_count_file, runs, netVars, gradVars, pctVars, rankVars,
                   scoreVars, sigVars>>

\* lines 354-357: return rankings, ranked_miners
GrmReturn ==
    /\ pc = "rank_done"
    /\ caller = "get_ranked_miners"
    /\ rank_out.raised = NoError
    /\ ~FormatRaises(rank_out.ranked_miners, assets_to_trade)
    /\ grm_out' = Ok(<<rank_out.rankings, rank_out.ranked_miners>>)
    /\ caller' = "none"
    /\ pc' = "grm_idle"
    /\ grm_log' = Append(grm_log, Finished(Some(positions_data), assets_to_trade, grm_out'))
    /\ UNCHANGED <<key_count_file, runs, netVars, gradVars, pctVars, rankVars,
                   scoreVars, sigVars>>

NextGuard ==
    \/ GrmFetchFailed
    \/ GrmAnomaly
    \/ GrmRank
    \/ RankFilter
    \/ RankScoreMiner
    \/ RankRaise
    \/ RankReturn
    \/ GrmRaise
    \/ GrmReturn

SpecGuard == InitGuard /\ [][NextGuard]_vars

(***************************************************************************)
(* Claims about the net position calculator (checked under SpecNet)        *)
(***************************************************************************)
NetDone == pc = "net_done"

NonZeroLevs == {k \in 1..Len(orders) : orders[k].leverage # Zero}

UniformSign ==
    \/ \A k \in NonZeroLevs : RGt(orders[k].leverage, Zero)
    \/ \A k \in NonZeroLevs : RLt(orders[k].leverage, Zero)

\* sum(leverage * price) / sum(leverage) over the orders as given
SumLev == RSum([k \in 1..Len(orders) |-> orders[k].leverage])
SumLevPrice ==
    RSum([k \in 1..Len(orders) |-> RMul(orders[k].leverage, orders[k].price)])

\* C1: a call whose orders hold an order of type FLAT, at any index and
\* whatever the other orders are, returns exactly (0.0, 0.0).
C1_FlatReturnsZero ==
    (NetDone /\ \E k \in 1..Len(orders) : orders[k].order_type = FLAT)
        => (net_position = Zero /\ cost_basis = Zero)

\* the FLAT order is not the last one and another order has leverage
C1_Witness ==
    /\ NetDone
    /\ Len(orders) = 3
    /\ orders[1].order_type = FLAT
    /\ orders[2].leverage = Rat(1, 1)
    /\ orders[3].leverage = Rat(-3, 1)

\* C2: for a FLAT-free call whose non-zero leverages all have one sign, the
\* returned cost basis is sum(leverage*price)/sum(leverage), the first
\* (opening) order included.
C2_UniformSignVwap ==
    (NetDone /\ ~AnyFlat(orders) /\ NonZeroLevs # {} /\ UniformSign)
        => cost_basis = RDiv(SumLevPrice, SumLev)

\* three short orders at two prices
C2_Witness ==
    /\ NetDone
    /\ ~AnyFlat(orders)
    /\ Len(orders) = 3
    /\ \A k \in 1..3 : RLt(orders[k].leverage, Zero)
    /\ orders[1].price # orders[2].price
    /\ orders[1].leverage # orders[3].leverage
    /\ cost_basis \notin PriceSet

FlipExample ==
    <<Order(LONG, Rat(1, 1), RInt(100), 1), Order(SHORT, Rat(-3, 1), RInt(110), 2)>>

\* C3: a loop iteration whose order opposes the running net position with
\* |qty| > |net| leaves net = qty + net and basis = the order's price; the
\* call on [+1@100, -3@110] returns net = -2, basis = 110.
C3_FlipStep ==
    [][/\ (/\ pc' = "net_loop"
           /\ oi' = oi + 1
           /\ RLt(RMul(net_position, sorted_orders[oi].leverage), Zero)
           /\ RGt(RAbs(sorted_orders[oi].leverage), RAbs(net_position)))
          => (/\ net_position' = RAdd(sorted_orders[oi].leverage, net_position)
              /\ cost_basis' = sorted_orders[oi].price)
       /\ (pc' = "net_done" /\ orders = FlipExample)
          => (net_position' = Rat(-2, 1) /\ cost_basis' = RInt(110))]_vars

C3_Witness ==
    /\ NetDone
    /\ orders = FlipExample
    /\ net_position = Rat(-2, 1)
    /\ cost_basis = RInt(110)

\* an iteration of the loop on the order at index oi
NetIteration == pc' = "net_loop" /\ oi' = oi + 1

\* the order at index oi opposes the running position, is no larger than it
\* and brings it to zero
FullClose ==
    /\ RLt(RMul(net_position, sorted_orders[oi].leverage), Zero)
    /\ RLe(RAbs(sorted_orders[oi].leverage), RAbs(net_position))
    /\ RAdd(net_position, sorted_orders[oi].leverage) = Zero

\* C16: an iteration whose order fully closes the running position leaves
\* the net position and the cost basis at exactly zero, and an iteration on
\* an order of non-zero leverage that finds them so leaves the net position
\* at the order's leverage and the cost basis at the order's price.
C16_FullCloseResets ==
    [][/\ (NetIteration /\ FullClose)
          => (net_position' = Zero /\ cost_basis' = Zero)
       /\ (/\ NetIteration
           /\ oi > 1
           /\ net_position = Zero
           /\ sorted_orders[oi].leverage # Zero)
          => (/\ cost_basis = Zero
              /\ net_position' = sorted_orders[oi].leverage
              /\ cost_basis' = sorted_orders[oi].price)]_vars

\* +1@100, then -1 closes the position in full, then +1/2@110 opens anew
C16_Witness ==
    /\ NetDone
    /\ Len(sorted_orders) = 3
    /\ sorted_orders[1].leverage = One /\ sorted_orders[1].price = RInt(100)
    /\ sorted_orders[2].leverage = Rat(-1, 1)
    /\ sorted_orders[3].leverage = Rat(1, 2) /\ sorted_orders[3].price = RInt(110)
    /\ NetFold([net |-> Zero, basis |-> Zero], SubSeq(sorted_orders, 1, 2)) = [net |-> Zero, basis |-> Zero]
    /\ net_position = Rat(1, 2)
    /\ cost_basis = RInt(110)

(***************************************************************************)
(* Claims about the gradient allocator (checked under SpecGrad)            *)
(***************************************************************************)
GradDone == pc = "grad_done" /\ max_rank >= 1

\* the largest scale among the returned weights
RECURSIVE MaxScale(_)
MaxScale(xs) ==
    IF xs = <<>> THEN 0
    ELSE LET m == MaxScale(Tail(xs)) IN IF Head(xs).s > m THEN Head(xs).s ELSE m

\* the rounding errors of the returned weights, summed exactly, in units of
\* 1/(total_weight * 2^MaxScale)
WeightErrorSum ==
    SumInts([r \in 1..Len(allocations) |->
                allocations[r].d * Pow2(MaxScale(allocations) - allocations[r].s)])

\* the weights summed as real numbers give exactly 1
ExactSumIsOne ==
    /\ SumInts([r \in 1..Len(allocations) |-> allocations[r].a]) = total_weight
    /\ WeightErrorSum = 0

\* the weights summed in rank order in double arithmetic give exactly 1.0
FloatSumIsOne ==
    LET x == DblSum(allocations) IN x.a = x.t /\ x.d = 0

C5_WeightsPositiveDecreasing ==
    GradDone =>
        /\ Len(allocations) = max_rank
        /\ \A r \in 1..max_rank :
              /\ allocations[r].a = max_rank + 1 - r
              /\ allocations[r].t = (max_rank * (max_rank + 1)) \div 2
              /\ Abs(allocations[r].d) * 2 <= allocations[r].a * Pow2(allocations[r].s - 52)
              /\ DblLt([a |-> 0, t |-> allocations[r].t, d |-> 0, s |-> 52],
                       allocations[r])
        /\ \A r \in 1..(max_rank - 1) : DblLt(allocations[r + 1], allocations[r])

C5_Witness ==
    /\ pc = "grad_done"
    /\ max_rank = 4
    /\ DblLt(allocations[4], allocations[3])
    /\ DblLt(allocations[2], allocations[1])
    /\ DblQuotient(allocations[4]) = Rat(1, 10)

(***************************************************************************)
(* Claims about the percentile normalizer (checked under SpecPct)          *)
(***************************************************************************)
\* 0-based position of values[k] when the values are put in descending
\* order with equal values kept in input order
DescendingPosition(k) ==
    Cardinality({j \in 1..Len(values) : RGt(values[j], values[k])})
    + Cardinality({j \in 1..(k - 1) : values[j] = values[k]})

\* C6: with the default reverse=False the element at descending-sorted
\* position rank gets 1 - rank/(n-1), at its own index; all scores lie in
\* [0, 1]; for n >= 2 the top scores 1 and the bottom 0; [10, 20, 30] gives
\* [0, 0.5, 1]; a single element gives [1].
C6_PercentileScores ==
    (pc = "pct_done" /\ ~reverse /\ values # <<>>) =>
        LET n == Len(values)
        IN  /\ Len(ranks) = n
            /\ \A k \in 1..n : RLe(Zero, ranks[k]) /\ RLe(ranks[k], One)
            /\ n = 1 => ranks = <<One>>
            /\ n > 1 => \A k \in 1..n :
                  /\ ranks[k] = RSub(One, Rat(DescendingPosition(k), n - 1))
                  /\ DescendingPosition(k) = 0 => ranks[k] = One
                  /\ DescendingPosition(k) = n - 1 => ranks[k] = Zero
            /\ values = <<RInt(10), RInt(20), RInt(30)>>
                  => ranks = <<Zero, Rat(1, 2), One>>

\* four values with a tie, in neither sorted order
C6_Witness ==
    /\ pc = "pct_done"
    /\ ~reverse
    /\ values = <<RInt(20), RInt(30), RInt(10), RInt(20)>>
    /\ ranks = <<Rat(2, 3), One, Zero, Rat(1, 3)>>

(***************************************************************************)
(* Claims about ranking (checked under SpecRank)                           *)
(***************************************************************************)
RankReturned == pc = "rank_done" /\ rank_out.raised = NoError

RankedHotkeys ==
    {rank_out.ranked_miners[k].hotkey : k \in 1..Len(rank_out.ranked_miners)}

\* C9: a miner with fewer than MIN_TRADES positions (open plus closed) is in
\* neither the ranked list nor the rankings map that rank_miners returns.
C9_FewTradesNeverRanked ==
    RankReturned =>
        \A k \in 1..Len(positions_data) :
            Len(positions_data[k].positions) < MIN_TRADES =>
                /\ positions_data[k].hotkey \notin RankedHotkeys
                /\ positions_data[k].hotkey \notin DOMAIN rank_out.rankings

\* a miner with 9 winning trades is left out while a ranked miner with 10
\* has a lower total return
C9_Witness ==
    /\ RankReturned
    /\ Len(positions_data) = 2
    /\ Len(positions_data[1].positions) = 9
    /\ RSum(PositionReturns(positions_data[1].positions)) = Rat(18, 10)
    /\ RankedHotkeys = {Hotkey(2)}
    /\ rank_out.rankings = [h \in {Hotkey(2)} |-> 1]
    /\ RSum(PositionReturns(positions_data[2].positions)) = One

\* the metrics of lines 372-404 for one miner of data
DrawdownOf(miner) == CalculateMaxDrawdownFromPositions(miner.positions).value
ProfitableRateOf(miner) ==
    Rat(ProfitableTrades(PositionReturns(miner.positions)), Len(miner.positions))
TotalReturnOf(miner) == RSum(PositionReturns(miner.positions))

\* the miner is below one of the three thresholds
BelowThreshold(miner) ==
    \/ RLt(DrawdownOf(miner), MAX_DRAWDOWN_THRESHOLD)
    \/ RLt(ProfitableRateOf(miner), MIN_PROFITABLE_RATE)
    \/ RLt(TotalReturnOf(miner), MIN_TOTAL_RETURN)

\* C12: no miner of the input of calculate_miner_scores whose max drawdown
\* is below MAX_DRAWDOWN_THRESHOLD, whose profitable fraction is below
\* MIN_PROFITABLE_RATE or whose total return is below MIN_TOTAL_RETURN is in
\* the ranked list or the rankings: every ranked miner passes all three.
C12_RankedPassThresholds ==
    RankReturned =>
        \A k \in 1..Len(data) :
            (data[k].positions # <<>> /\ BelowThreshold(data[k])) =>
                /\ data[k].hotkey \notin RankedHotkeys
                /\ data[k].hotkey \notin DOMAIN rank_out.rankings

\* a miner with half of its trades profitable and a positive total return
\* is left out; the other miner, at the drawdown floor of -1/2, is ranked
C12_Witness ==
    /\ RankReturned
    /\ Len(data) = 2
    /\ ProfitableRateOf(data[1]) = Rat(1, 2)
    /\ RGt(TotalReturnOf(data[1]), Zero)
    /\ DrawdownOf(data[2]) = MAX_DRAWDOWN_THRESHOLD
    /\ RankedHotkeys = {data[2].hotkey}

\* the place of a hotkey in the iteration order of data
PlaceOf(hotkey) == CHOOSE k \in 1..Len(data) : data[k].hotkey = hotkey

\* C18: the ranked list that rank_miners returns is in non-increasing order
\* of total_score, entries of equal total_score are in the iteration order
\* of the input, and the rankings map sends the hotkey of the entry at
\* position k to k, one hotkey for each position 1..n.
C18_SortedStableRanked ==
    RankReturned =>
        /\ \A i, j \in 1..Len(rank_out.ranked_miners) :
               i < j =>
                 /\ RGe(rank_out.ranked_miners[i].total_score,
                        rank_out.ranked_miners[j].total_score)
                 /\ rank_out.ranked_miners[i].total_score =
                       rank_out.ranked_miners[j].total_score
                    => PlaceOf(rank_out.ranked_miners[i].hotkey)
                         < PlaceOf(rank_out.ranked_miners[j].hotkey)
        /\ DOMAIN rank_out.rankings = RankedHotkeys
        /\ Cardinality(RankedHotkeys) = Len(rank_out.ranked_miners)
        /\ \A k \in 1..Len(rank_out.ranked_miners) :
               rank_out.rankings[rank_out.ranked_miners[k].hotkey] = k

\* two ranked miners of equal total_score, in their input order
C18_Witness ==
    /\ RankReturned
    /\ Len(rank_out.ranked_miners) = 2
    /\ rank_out.ranked_miners[1].total_score = rank_out.ranked_miners[2].total_score
    /\ rank_out.ranked_miners[1].total_return # rank_out.ranked_miners[2].total_return
    /\ rank_out.ranked_miners[1].hotkey = data[1].hotkey
    /\ rank_out.rankings[data[2].hotkey] = 2

\* the miner of data with the hotkey of a ranked entry
MinerOf(hotkey) == data[CHOOSE k \in 1..Len(data) : data[k].hotkey = hotkey]

\* the composite score with the drawdown term (1 + max_drawdown) raised to
\* DRAWDOWN_EXPONENT, for a ranked entry n and the miner it was made from
ScoreByDesign(n, miner) ==
    RSum(<<RPow(RAdd(One, DrawdownOf(miner)), DRAWDOWN_EXPONENT),
           RPow(n.sharpe_ratio, SHARPE_EXPONENT),
           RAdd(One, TotalReturnOf(miner)),
           RPow(ProfitableRateOf(miner), PROFITABLE_RATE_EXPONENT),
           RMul(n.position_count,
                RDiv(Log1p(Len(miner.positions)), RInt(POSITION_COUNT_DIVISOR))),
           n.consistency_score>>)

\* C17: the composite score of every ranked miner is the sum of
\* (1 + max_drawdown)^DRAWDOWN_EXPONENT, sharpe_percentile^2,
\* 1 + total_return, pct_profitable^5,
\* position_count_percentile * log1p(position_count)/5 and
\* consistency_percentile.  The code does not keep this: it squares
\* 1 + max_drawdown before raising it to DRAWDOWN_EXPONENT.
C17_ScoreByDesign ==
    RankReturned =>
        \A k \in 1..Len(rank_out.ranked_miners) :
            rank_out.ranked_miners[k].total_score =
                ScoreByDesign(rank_out.ranked_miners[k],
                              MinerOf(rank_out.ranked_miners[k].hotkey))

\* C20: get_trade_consistency_score returns 0 for fewer than two gaps and
\* for a mean gap of zero, and raises for no list of positions, open
\* positions without a close time included: no call of rank_miners ends
\* with an exception of the consistency score.  The code does not keep
\* this: the gap after an open position is open_ms - None, a TypeError.
C20_ConsistencyNeverRaises ==
    pc = "rank_done" => rank_out.raised # "TypeError"

(***************************************************************************)
(* Claims about the composite score (checked under SpecScore)              *)
(***************************************************************************)
ScoreDone == pc = "score_done"

\* the two normalized entries differ in nothing but total_return and total_score
OthersHeldFixed ==
    /\ scores[1].max_drawdown = scores[2].max_drawdown
    /\ scores[1].sharpe_ratio = scores[2].sharpe_ratio
    /\ scores[1].percentage_profitable = scores[2].percentage_profitable
    /\ scores[1].position_count = scores[2].position_count
    /\ scores[1].consistency_score = scores[2].consistency_score

\* C7: with the drawdown score, the Sharpe percentile, the profitable
\* fraction, the position count percentile and the consistency percentile
\* held fixed, a total_return that is not lower gives a total_score that is
\* not lower.
C7_ScoreMonotoneInReturn ==
    ScoreDone =>
        /\ OthersHeldFixed
        /\ RLe(scores[1].total_score, scores[2].total_score)

\* a strictly higher return with a strictly higher score, for an entry with
\* a drawdown and middling percentiles
C7_Witness ==
    /\ ScoreDone
    /\ entry.metrics.max_drawdown = Rat(-1, 2)
    /\ percentiles = <<Rat(1, 2), Zero, Rat(1, 2)>>
    /\ RLt(entry.metrics.total_return, higher_return)
    /\ RLt(scores[1].total_score, scores[2].total_score)
    /\ RSub(scores[2].total_score, scores[1].total_score)
         = RSub(higher_return, entry.metrics.total_return)

(***************************************************************************)
(* Claims about calculate_sharpe_ratio (checked under SpecSharpe)          *)
(***************************************************************************)
AllReturnsEqual == \A j, k \in 1..Len(returns) : returns[j] = returns[k]

\* C19: calculate_sharpe_ratio returns 0 for fewer than 2 samples and for
\* samples that are all equal, and mean / std for any other input.  The
\* code does not keep this: the rounded mean of equal doubles can differ
\* from them, np.std is then not 0 and the quotient is returned.
C19_SharpeZeroOrQuotient ==
    pc = "sharpe_done" =>
        sharpe_ratio.quotient = (Len(returns) >= 2 /\ ~AllReturnsEqual)

(***************************************************************************)
(* Claims about calculate_max_drawdown_from_orders (under SpecDrawdown)    *)
(***************************************************************************)
\* an iteration of the loop on the order at index di that is not skipped
DdCounted ==
    /\ pc = "dd_loop"
    /\ di' = di + 1
    /\ dd_orders[di].leverage # Zero
    /\ dd_orders[di].price # Zero
    /\ cumulative_leverage' # Zero

\* the price of the order at index di is not on the losing side of the
\* running average: not below it while long, not above it while short
Favourable ==
    IF RGt(cumulative_leverage', Zero)
    THEN RGe(dd_orders[di].price, RDiv(weighted_sum_price', cumulative_leverage'))
    ELSE RLe(dd_orders[di].price, RDiv(weighted_sum_price', cumulative_leverage'))

\* C21: while the cumulative leverage is long only a price below the
\* running average lowers the max drawdown, while it is short only a price
\* above it: an iteration on a favourable price leaves max_drawdown as it
\* was.  The code does not keep this: it takes -abs(account_drawdown), so
\* a gain lowers max_drawdown as a loss of the same size does.
C21_FavourableKeepsDrawdown ==
    [][(DdCounted /\ Favourable) => max_dd' = max_dd]_vars

\* the order has a leverage and a price
Counted(o) == o.leverage # Zero /\ o.price # Zero

\* C22: an iteration on an order of zero leverage or zero price leaves the
\* cumulative leverage, the weighted price sum and the max drawdown as they
\* were, and the call ends as the call on the orders without every such
\* order ends.
C22_ZeroOrdersSkipped ==
    [][/\ (pc = "dd_loop" /\ di' = di + 1 /\ ~Counted(dd_orders[di]))
          => UNCHANGED <<cumulative_leverage, weighted_sum_price, max_dd>>
       /\ (pc = "dd_loop" /\ pc' = "dd_done")
          => dd_out' = CalculateMaxDrawdownFromOrders(SelectSeq(dd_orders, Counted))]_vars

\* an order of zero price between two orders that make a drawdown
C22_Witness ==
    /\ pc = "dd_done"
    /\ Len(dd_orders) = 3
    /\ Counted(dd_orders[1])
    /\ dd_orders[2].price = Zero /\ dd_orders[2].leverage # Zero
    /\ Counted(dd_orders[3])
    /\ dd_out.raised = NoError
    /\ RLt(dd_out.value, Zero)

(***************************************************************************)
(* Claims about _process_signals (checked under SpecSignals)               *)
(***************************************************************************)
SigReturned == pc = "sig_done" /\ sig_out.raised = NoError

\* the cap on an asset's depth: capped_leverage / LEVERAGE_LIMIT_CRYPTO is
\* at most 1.0 and the allocation weights sum to 1.0
DepthCap == RDiv(LEVERAGE_LIMIT_CRYPTO, LEVERAGE_LIMIT_CRYPTO)

\* C8: the depth of every asset signal that _process_signals returns is at
\* most the cap of 1.0 in absolute value.  The code does not keep this: the
\* depth is the net position of the pooled weighted orders, and the capped
\* leverage is only printed.
C8_DepthWithinCap ==
    SigReturned =>
        \A k \in 1..Len(sig_out.value) : RLe(RAbs(sig_out.value[k].depth), DepthCap)

\* C13: a miner that fails a scoring filter has none of its orders in a
\* depth of _process_signals: a call all of whose miners have fewer than
\* MIN_TRADES positions returns no asset signal.  The code does not keep
\* this: _process_signals orders the miners by all_time_returns and applies
\* no scoring filter.
C13_FilteredMinersContributeNothing ==
    (SigReturned /\ raw_signals # None) =>
        ((\A k \in 1..Len(raw_signals[1]) :
              FailsMinTrades(Len(raw_signals[1][k].positions)))
            => sig_out.value = <<>>)

\* C23: a position whose trade pair has no entry in CORE_ASSET_MAPPING is
\* skipped when mapped_only is true, and with mapped_only false it is taken
\* into the aggregation and the call ends without raising: no call ends
\* with the KeyError of the mapping.  The code does not keep this: with
\* mapped_only false line 130 looks up CORE_ASSET_MAPPING[None].
C23_UnmappedNeverRaises ==
    pc = "sig_done" => sig_out.raised # "KeyError"

\* the most that one position of the miner of rank r may add to a depth:
\* the leverage ceiling scaled by the miner's gradient weight
WeightedCeiling(r) == RMul(DblQuotient(sig_allocations[r]), LEVERAGE_LIMIT_CRYPTO)

\* C24: the net position of a position is capped in magnitude at
\* LEVERAGE_LIMIT_CRYPTO before it is scaled by the gradient weight: in a
\* call on one miner with one position every returned depth is at most the
\* miner's weight times the ceiling in absolute value.  The code does not
\* keep this: the capped value of line 143 is only printed and the orders
\* enter the depth with their full weighted leverage.
C24_ContributionWithinCeiling ==
    (SigReturned /\ Len(sorted_miners) = 1 /\ Len(sorted_miners[1].positions) = 1) =>
        \A k \in 1..Len(sig_out.value) :
            RLe(RAbs(sig_out.value[k].depth), WeightedCeiling(1))

\* the positions of the miners that the call considers
ConsideredPositions ==
    UNION {{sorted_miners[mr].positions[pq] : pq \in 1..Len(sorted_miners[mr].positions)} :
              mr \in 1..Len(sorted_miners)}

Skipped(position_data) ==
    position_data.net_leverage = Zero \/ position_data.is_closed_position

\* the asset has positions among those considered, and each one is skipped
OnlySkipped(sym) ==
    /\ \E pd \in ConsideredPositions : OriginalSymbol(pd.trade_pair) = Some(sym)
    /\ \A pd \in ConsideredPositions : OriginalSymbol(pd.trade_pair) = Some(sym) => Skipped(pd)

\* C28: a call of _process_signals on a snapshot in which a mapped asset has
\* only skipped positions (closed, or of zero net leverage) does not end
\* with the ValueError of max() of an empty entry list.
C28_SkippedOnlyNeverRaises ==
    (pc = "sig_done" /\ \E k \in 1..Len(CoreAssets) : OnlySkipped(CoreAssets[k])) =>
        sig_out.raised # "ValueError"

\* a considered position of the asset that contributes its orders, one of
\* which is a FLAT order
FlatContributed(sym) ==
    \E pd \in ConsideredPositions :
        /\ OriginalSymbol(pd.trade_pair) = Some(sym)
        /\ ~Skipped(pd)
        /\ AnyFlat(pd.orders)

\* C29: when a call of _process_signals returns and some contributing open
\* position of an asset holds a FLAT order, the asset has a signal and its
\* depth and average price are exactly 0, whatever the other miners' orders
\* for that asset are.
C29_FlatVoidsAsset ==
    SigReturned =>
        \A a \in 1..Len(CoreAssets) :
            FlatContributed(CoreAssets[a]) =>
                /\ \E k \in 1..Len(sig_out.value) :
                       sig_out.value[k].symbol = CORE_ASSET_MAPPING(CoreAssets[a])
                /\ \A k \in 1..Len(sig_out.value) :
                       sig_out.value[k].symbol = CORE_ASSET_MAPPING(CoreAssets[a]) =>
                           /\ sig_out.value[k].depth = Zero
                           /\ sig_out.value[k].average_price = Zero

\* the first miner's position has the FLAT order, the second miner adds two
\* later positions of the same asset: the asset's signal is void
C29_Witness ==
    /\ SigReturned
    /\ Len(sorted_miners) = 2
    /\ AnyFlat(sorted_miners[1].positions[1].orders)
    /\ Len(sorted_miners[2].positions) = 2
    /\ ~AnyFlat(sorted_miners[2].positions[2].orders)
    /\ Len(sig_out.value) = 1
    /\ sig_out.value[1].symbol = "BTCUSDT"
    /\ sig_out.value[1].depth = Zero
    /\ sig_out.value[1].average_price = Zero
    /\ sig_out.value[1].price = RInt(110)

(***************************************************************************)
(* Claims about the net position as a sum (checked under SpecNetSum)       *)
(***************************************************************************)
\* the sum of the leverages of the orders
LeverageSum(os) == RSum([k \in 1..Len(os) |-> os[k].leverage])

\* the position's orders are appended to the entries of the symbol
Contributes(position_data, symbol) ==
    /\ ~Skipped(position_data)
    /\ \E a \in 1..Len(CoreAssets) :
           /\ OriginalSymbol(position_data.trade_pair) = Some(CoreAssets[a])
           /\ CORE_ASSET_MAPPING(CoreAssets[a]) = symbol

\* the sum of the leverages of the orders that the miner of rank mr
\* contributes to the symbol
MinerLeverage(mr, symbol) ==
    RSum([pq \in 1..Len(sorted_miners[mr].positions) |->
             IF Contributes(sorted_miners[mr].positions[pq], symbol)
             THEN LeverageSum(sorted_miners[mr].positions[pq].orders)
             ELSE Zero])

\* the sum over the miners of weight times the sum of the miner's leverages
DepthBySums(symbol) ==
    RSum([mr \in 1..Len(sorted_miners) |->
             RMul(DblQuotient(sig_allocations[mr]), MinerLeverage(mr, symbol))])

FlatFree(symbol) ==
    \A pd \in ConsideredPositions : Contributes(pd, symbol) => ~AnyFlat(pd.orders)

\* the rounding error of the double x in units of 1/(x.t * 2^e)
ErrorUnits(x, e) == x.d * Pow2(e - x.s)

\* the largest exponent of rounding error among the leverages and the result
MaxExponent(os, x) ==
    CHOOSE e \in {x.s} \cup {os[k].leverage.s : k \in 1..Len(os)} :
        /\ e >= x.s
        /\ \A k \in 1..Len(os) : e >= os[k].leverage.s

\* x differs from the sum of the leverages by no more than 2^-50
NearLeverageSum(os, x, e) ==
    /\ x.a = SumInts([k \in 1..Len(os) |-> os[k].leverage.a])
    /\ Abs(ErrorUnits(x, e) - SumInts([k \in 1..Len(os) |-> ErrorUnits(os[k].leverage, e)]))
           <= x.t * Pow2(e - 50)

\* C30 as amended: for FLAT-free orders the net position returned is the
\* sum of the leverages exactly when float arithmetic adds them exactly (so
\* for every order of processing), and for leverages that are tenths it is
\* the sum to within 2^-50; an asset's depth is the sum over the
\* contributing miners of weight times the sum of the miner's leverages.
C30_NetIsSumWithinRounding ==
    /\ (pc = "net_done" /\ ~AnyFlat(orders)) => net_position = LeverageSum(orders)
    /\ pc = "dblnet_done" =>
           NearLeverageSum(dbl_orders, dbl_net_position[1],
                           MaxExponent(dbl_orders, dbl_net_position[1]))
    /\ SigReturned =>
           \A k \in 1..Len(sig_out.value) :
               FlatFree(sig_out.value[k].symbol) =>
                   sig_out.value[k].depth = DepthBySums(sig_out.value[k].symbol)

\* SHORT 3 at time 1, LONG 1 at time 2 and LONG 1/2 at time 2, passed out of
\* time order: the position is closed in part twice and the net is -3/2
C30_Witness ==
    /\ pc = "net_done"
    /\ Len(orders) = 3
    /\ orders[1].leverage = One /\ orders[1].processed_ms = 2
    /\ orders[2].leverage = RInt(-3) /\ orders[2].processed_ms = 1
    /\ orders[3].leverage = Rat(1, 2) /\ orders[3].processed_ms = 2
    /\ net_position = Rat(-3, 2)

\* the orders with the timestamps f[1], f[2], ...
Retimed(os, f) == [k \in 1..Len(os) |-> [os[k] EXCEPT !.processed_ms = f[k]]]

\* C30 as stated: the net position that the call returns for FLAT-free orders is the
\* sum of their leverages, and so it is the same for every assignment of
\* timestamps to the orders, that is for every order in which they are
\* processed.
C30_NetSameInAnyOrder ==
    pc = "dblnet_done" =>
        \A f \in [1..Len(dbl_orders) -> DblMsSet] :
            DblEq(dbl_net_position[1], NetPositionOfLongs(Retimed(dbl_orders, f)))

(***************************************************************************)
(* Claims about get_ranked_miners (checked under SpecGuard)                *)
(***************************************************************************)
\* a step in which get_ranked_miners has fetched a snapshot
GrmFetched ==
    /\ pc = "grm_idle"
    /\ runs' = runs + 1
    /\ grm_out' # Ok(<<None, None>>)

\* the call ended with the anomaly error and left the file alone
GrmRaisedAnomaly ==
    /\ grm_out' = Raise("ValueError")
    /\ pc' = "grm_idle"
    /\ key_count_file' = key_count_file

\* the call passed the check, stored the new count and went on to rank
GrmWentOn ==
    /\ grm_out' = Ok(None)
    /\ pc' = "rank_start"
    /\ key_count_file' = Some(StrOf(Len(positions_data')))

\* C10: with a count stored, a call whose snapshot has at most 50 miners,
\* or a count more than 10 away from the stored one, raises the anomaly
\* error; a call whose snapshot has more than 50 miners and a count within
\* 10 of the stored one does not raise it and goes on.
C10_AnomalyIffOutOfTolerance ==
    [][(GrmFetched /\ key_count_file # None) =>
          IF \/ Len(positions_data') <= 50
             \/ Len(positions_data') - IntOf(key_count_file[1]) > 10
             \/ IntOf(key_count_file[1]) - Len(positions_data') > 10
          THEN GrmRaisedAnomaly
          ELSE GrmWentOn]_vars

\* previous = 100, new = 112: the second call has raised
C10_Witness ==
    /\ pc = "grm_idle"
    /\ runs = 2
    /\ key_count_file = Some(<<"1", "0", "0">>)
    /\ Len(positions_data) = 112
    /\ grm_out = Raise("ValueError")

\* two calls in succession on the identical snapshot, with the same
\* assets_to_trade, the first of which returned
SameSnapshotTwice(i) ==
    /\ grm_log[i].snapshot # None
    /\ grm_log[i].out.raised = NoError
    /\ grm_log[i + 1].snapshot = grm_log[i].snapshot
    /\ grm_log[i + 1].assets = grm_log[i].assets

\* C11: a call of get_ranked_miners that follows a call on the identical
\* snapshot which returned, ends as that call did: with the same rankings
\* and the same ranked list.
C11_SameOutcomeTwice ==
    \A i \in 1..(Len(grm_log) - 1) :
        SameSnapshotTwice(i) => grm_log[i + 1].out = grm_log[i].out

\* a step in which a call fetches a snapshot whose count trips the check of
\* line 346 against the count in the file
GuardTrips ==
    /\ GrmFetched
    /\ key_count_file # None
    /\ \/ Len(positions_data') <= 50
       \/ Abs(Len(positions_data') - IntOf(key_count_file[1])) > 10

\* C15: a call of get_ranked_miners whose miner count trips the guard ends
\* with the error in that same step: it returns no rankings and no ranked
\* list, rank_miners is not entered, and the file holds the count that it
\* held before the call.
C15_TripEndsCallUntouched ==
    [][GuardTrips =>
          /\ grm_out' = Raise("ValueError")
          /\ grm_log' = Append(grm_log, Finished(Some(positions_data'), assets_to_trade', Raise("ValueError")))
          /\ pc' = "grm_idle"
          /\ caller' = "none"
          /\ UNCHANGED <<key_count_file, rank_out, metrics_data, data, mi>>]_vars

\* previous = 51, new = 62: the second call has raised and 51 is still stored
C15_Witness ==
    /\ pc = "grm_idle"
    /\ Len(grm_log) = 2
    /\ grm_log[1].snapshot # None
    /\ grm_log[1].out.raised = NoError
    /\ grm_log[2].out = Raise("ValueError")
    /\ Len(grm_log[1].snapshot[1]) = 51
    /\ Len(grm_log[2].snapshot[1]) = 62
    /\ key_count_file = Some(<<"5", "1">>)

\* the i-th finished call was rejected by the check of line 346
Rejected(i) == grm_log[i].snapshot # None /\ grm_log[i].out = Raise("ValueError")

\* the i-th finished call has not stored a count: its fetch failed or its
\* snapshot was rejected
NothingStored(i) == grm_log[i].snapshot = None \/ Rejected(i)

\* C26: a call that the guard rejects leaves the stored count as it was, and
\* every later call that sees a snapshot of the same size, with no call in
\* between that stored a count, is rejected again.
C26_RejectionPersists ==
    /\ [][(GrmFetched /\ grm_out' = Raise("ValueError")) => key_count_file' = key_count_file]_vars
    /\ [](\A i \in 1..Len(grm_log) : \A j \in (i + 1)..Len(grm_log) :
            (/\ Rejected(i)
             /\ grm_log[j].snapshot # None
             /\ Len(grm_log[j].snapshot[1]) = Len(grm_log[i].snapshot[1])
             /\ \A k \in (i + 1)..(j - 1) : NothingStored(k)) => Rejected(j))

\* 100 is stored: two calls in succession have seen 112 miners, both were
\* rejected and 100 is still stored
C26_Witness ==
    /\ pc = "grm_idle"
    /\ Len(grm_log) = 2
    /\ Rejected(1)
    /\ Rejected(2)
    /\ Len(grm_log[1].snapshot[1]) = 112
    /\ Len(grm_log[2].snapshot[1]) = 112
    /\ key_count_file = Some(<<"1", "0", "0">>)

\* the i-th finished call has returned its rankings
Succeeded(i) == grm_log[i].snapshot # None /\ grm_log[i].out.raised = NoError

\* C27: with no count stored, a call that fetches a snapshot of any size,
\* 50 miners or fewer included, is not rejected: it stores the size and goes
\* on to rank.  Between calls, the count read back from the file is the
\* size of the snapshot of the last call that returned, when no call after
\* it stored a count.
C27_FirstRunStoresAnySize ==
    /\ [][(GrmFetched /\ key_count_file = None) => GrmWentOn]_vars
    /\ [](pc = "grm_idle" =>
            \A i \in 1..Len(grm_log) :
                (Succeeded(i) /\ \A k \in (i + 1)..Len(grm_log) : NothingStored(k)) =>
                    FetchKeyCount(key_count_file) = Len(grm_log[i].snapshot[1]))

\* no file, then a first call on 40 miners that has returned: 40 is stored
C27_Witness ==
    /\ pc = "grm_idle"
    /\ Len(grm_log) = 1
    /\ Succeeded(1)
    /\ Len(grm_log[1].snapshot[1]) = 40
    /\ key_count_file = Some(<<"4", "0">>)

(***************************************************************************)
(* Claims about the caller's data (checked under SpecCalls)                *)
(***************************************************************************)
\* C25: no step of _compute_net_position_and_average_price, of
\* _process_signals or of rank_miners and filter_positions_by_assets
\* changes the orders or the snapshot that the caller passed: every miner
\* record, position list and order, and the order of the orders.
C25_InputsNeverMutated ==
    [][/\ orders' = orders
       /\ raw_signals' = raw_signals
       /\ positions_data' = positions_data]_vars

\* a call has returned on orders that were not in order of time
C25_Witness ==
    /\ pc = "net_done"
    /\ Len(orders) = 3
    /\ orders[1].processed_ms > orders[2].processed_ms
    /\ sorted_orders # orders
    /\ net_position # Zero

(***************************************************************************)
(* Claims about both entry points (checked under SpecCohort)               *)
(***************************************************************************)
\* rank_miners has ended and the loop of lines 363-420 kept no miner
NoMinerPasses ==
    /\ pc = "rank_done"
    /\ \A k \in 1..Len(data) : MinerMetrics(data[k]) = Ok(None)

\* _process_signals has ended on no data or on a snapshot without miners
EmptyCohort ==
    /\ pc = "sig_done"
    /\ (raw_signals = None \/ raw_signals = Some(<<>>))

====
